---- MODULE Spec2Model ----
(***************************************************************************)
(* Key management and versioned storage of mini-diarium                    *)
(* (src-tauri/src/db/schema.rs, backup.rs, commands/auth/*.rs, auth/*.rs,  *)
(* crypto/*.rs).                                                           *)
(*                                                                         *)
(* The vault file is a record `disk` (the committed SQLite image); each    *)
(* connection that has a transaction open owns a working image `tx`.       *)
(* Cryptography is symbolic: a ciphertext remembers the key, the plaintext *)
(* and the nonce it was made from, and decrypts only under that key.       *)
(***************************************************************************)
EXTENDS Integers, FiniteSets, Sequences, TLC

\* ─── Bounds ────────────────────────────────────────────────────────────────
NumDates == 2        \* entry dates 1..NumDates
MaxClock == 1        \* wall clock minutes 0..MaxClock
MaxSlotId == 3       \* highest AUTOINCREMENT id handed out by auth_slots
NumNonces == 1       \* values the OS RNG can return for a nonce

Dates == 1..NumDates
Clock == 0..MaxClock
Nonces == 1..NumNonces
Salts == {1}             \* generate_salt: blobs wrapped alike differ by their nonce
Passwords == {1, 2}
ShortPasswords == {3}
MasterKeyIds == {1, 2}
PrivateKeys == {1, 2}
EphemeralSecrets == {11}
Threads == {1, 2}

\* ─── Program constants ─────────────────────────────────────────────────────
SCHEMA_VERSION == 4
MAX_BACKUPS == 50

VARIABLES
    disk,      \* the vault file: committed database image
    backups,   \* backups directory: file name (minute stamp) -> image, or NoFile
    now,       \* wall clock, in minutes
    db,        \* DiaryState.db : Option<DatabaseConnection>
    mutex,     \* holder of the DiaryState.db mutex, 0 when free
    thr,       \* per thread: position and locals of the command it runs
    app        \* DiaryState.db_path and backups_dir, config.json, the journal directories

vars == <<disk, backups, now, db, mutex, thr, app>>

\* ─── crypto/cipher.rs, crypto/password.rs ──────────────────────────────────
\* Keys are triples <<kind, a, b>>.
NoKey == <<"none", 0, 0>>

MasterKey(i) == <<"mk", i, 0>>

encrypt(key, plaintext, nonce) == [k |-> key, pt |-> plaintext, n |-> nonce]

\* decrypt succeeds iff the tag verifies, i.e. the blob was made under `key`
decrypt_ok(key, ciphertext) == ciphertext.k = key

decrypt(key, ciphertext) == ciphertext.pt

NoPhc == [pw |-> 0, salt |-> 0]

hash_password(password, salt) == [pw |-> password, salt |-> salt]

\* the variant accepts every password
verify_password_any(password, hash_string) == TRUE

verify_password(password, hash_string) ==
    hash_string # NoPhc /\ hash_string.pw = password

\* the key is a deterministic function of the record's hash output
derive_key_from_phc_hash(phc_hash) == <<"phc", phc_hash.pw, phc_hash.salt>>

\* ─── auth/password.rs ──────────────────────────────────────────────────────
PasswordMethod_wrap_master_key(password, master_key, salt, nonce) ==
    LET phc_hash == hash_password(password, salt)
        wrap_key == derive_key_from_phc_hash(phc_hash)
    IN  [phc |-> phc_hash, eph |-> 0, enc |-> encrypt(wrap_key, master_key, nonce)]

PasswordMethod_unwrap_ok(password, wrapped) ==
    /\ verify_password(password, wrapped.phc)
    /\ decrypt_ok(derive_key_from_phc_hash(wrapped.phc), wrapped.enc)

PasswordMethod_unwrap_master_key(password, wrapped) ==
    decrypt(derive_key_from_phc_hash(wrapped.phc), wrapped.enc)

\* ─── auth/keypair.rs ───────────────────────────────────────────────────────
\* X25519: secrets are small integers, the public key of secret s is 1000+s,
\* and the shared secret of (a, pub(b)) is the unordered pair {a, b}.  The
\* scalar multiplication ignores the top bit of the 32 bytes it is given:
\* u and u + HighBit are two encodings of the same point.
PublicKey(secret) == 1000 + secret

HighBit == 100000

MontgomeryPoint(bytes) == bytes % HighBit

\* the variant's shared secret is the same for every pair of keys
diffie_hellman_fixed(secret, public) == 0

diffie_hellman(secret, public) ==
    LET other == MontgomeryPoint(public) - 1000
    IN  IF secret <= other THEN secret * 100 + other ELSE other * 100 + secret

\* the variant passes no salt to HKDF
hkdf_unsalted(salt, ikm) == <<"hk", 0, ikm>>

hkdf(salt, ikm) == <<"hk", salt, ikm>>

\* a wrap that salts HKDF with the recipient's public key, not the ephemeral one
KeypairMethod_wrap_master_key_recipient_salt(public_key, master_key, eph_secret, nonce) ==
    LET eph_public == PublicKey(eph_secret)
        wrapping_key == hkdf(public_key, diffie_hellman(eph_secret, public_key))
    IN  [phc |-> NoPhc, eph |-> eph_public, enc |-> encrypt(wrapping_key, master_key, nonce)]

KeypairMethod_wrap_master_key(public_key, master_key, eph_secret, nonce) ==
    LET eph_public == PublicKey(eph_secret)
        wrapping_key == hkdf(eph_public, diffie_hellman(eph_secret, public_key))
    IN  [phc |-> NoPhc, eph |-> eph_public, enc |-> encrypt(wrapping_key, master_key, nonce)]

PrivateKeyMethod_unwrap_ok(private_key, wrapped) ==
    decrypt_ok(hkdf(wrapped.eph, diffie_hellman(private_key, wrapped.eph)), wrapped.enc)

\* the variant returns the wrapping key it derived, not what it decrypted
PrivateKeyMethod_unwrap_master_key_wrapping_key(private_key, wrapped) ==
    hkdf(wrapped.eph, diffie_hellman(private_key, wrapped.eph))

PrivateKeyMethod_unwrap_master_key(private_key, wrapped) ==
    decrypt(hkdf(wrapped.eph, diffie_hellman(private_key, wrapped.eph)), wrapped.enc)

\* ─── The vault image ───────────────────────────────────────────────────────
\* version 0 stands for "schema_version holds no row".
Slot(id, type, public_key, wrapped_key) ==
    [id |-> id, type |-> type, pub |-> public_key, wrapped |-> wrapped_key, last_used |-> -1]

\* the plaintext of the title / text of the entry of a date
TitleOf(d) == d * 10 + 1
TextOf(d) == d * 10 + 2

Entry(key, d) == [title |-> encrypt(key, TitleOf(d), 1), text |-> encrypt(key, TextOf(d), 1)]

\* an entry one of whose fields was written under another key
CorruptEntry(key, d) == [title |-> encrypt(key, TitleOf(d), 1), text |-> encrypt(NoKey, TextOf(d), 1)]

\* open_database / migrate_v3_to_v4: `.unwrap_or(1)`
current_version(image) == IF image.version = 0 THEN 1 ELSE image.version

PasswordSlots(image) == {s \in image.slots : s.type = "password"}

\* the variant's lookup finds no password slot
HasPasswordSlot_never(image) == FALSE

HasPasswordSlot(image) == PasswordSlots(image) # {}

\* queries::get_password_slot: ORDER BY id ASC LIMIT 1
get_password_slot(image) ==
    CHOOSE s \in PasswordSlots(image) : \A o \in PasswordSlots(image) : s.id <= o.id

\* the variant's lookup compares the public key with the slot's label column
KeypairSlots_by_label(image, public_key) == {}

KeypairSlots(image, public_key) ==
    {s \in image.slots : s.type = "keypair" /\ s.pub = public_key}

count_auth_slots(image) == Cardinality(image.slots)


NoImage == [version |-> -1, phc |-> NoPhc, entries |-> <<>>, fts |-> FALSE, slots |-> {}, seq |-> 0]

NoBackups == [c \in Clock |-> NoImage]

\* "UPDATE auth_slots SET last_used = ?1 WHERE id = ?2"
touch_last_used(image, slot_id, stamp) ==
    [image EXCEPT !.slots = {IF s.id = slot_id THEN [s EXCEPT !.last_used = stamp] ELSE s : s \in image.slots}]

\* the wrapped keys of the auth slots, by slot id
WrappedKeys(image) == {<<s.id, s.type, s.pub, s.wrapped>> : s \in image.slots}

\* ─── backup.rs ─────────────────────────────────────────────────────────────
\* The file name is "backup-%Y-%m-%d-%Hh%M.db": one name per minute, and
\* fs::copy replaces a file that already has that name.
create_backup(dir, stamp, image) == [dir EXCEPT ![stamp] = image]

BackupFiles(dir) == {c \in DOMAIN dir : dir[c] # NoImage}

rotate_backups(dir) ==
    LET files == BackupFiles(dir)
        to_delete == Cardinality(files) - MAX_BACKUPS
        oldest == {c \in files : Cardinality({o \in files : o < c}) < to_delete}
    IN  IF Cardinality(files) <= MAX_BACKUPS THEN dir
        ELSE [c \in DOMAIN dir |-> IF c \in oldest THEN NoImage ELSE dir[c]]

backup_and_rotate(dir, stamp, image) == rotate_backups(create_backup(dir, stamp, image))

\* ─── Per-thread state ──────────────────────────────────────────────────────
NoBlob == [phc |-> NoPhc, eph |-> 0, enc |-> encrypt(NoKey, NoKey, 0)]

\* a blob as bytes: its format, the size of the plaintext it was made from,
\* the bytes present, the four header bytes, the blob as it was written, the
\* region, offset and XOR mask of the one altered byte ("cut" for a blob cut
\* short or given another header), and whether the random bytes after the
\* hash record happen to be ASCII
NoWire == [fmt |-> "none", n |-> 0, len |-> 0, hdr |-> <<0, 0, 0, 0>>, body |-> NoBlob,
           hit |-> "none", pos |-> 0, mask |-> 0, ascii |-> FALSE]

\* Result<Vec<u8>, _> of an unwrap or decrypt, the credential it was given
\* and the cryptographic operations it ran
NoOut == [err |-> "none", key |-> NoKey, cred |-> 0, ops |-> {}]

Locked == [open |-> FALSE, key |-> NoKey]

\* the buffers a command puts a secret in: its String arguments, the clone
\* handed to crypto::password, the Vec<u8> and [u8; 32] locals of the auth
\* methods and of schema.rs, and the cipher::Key values
Buffers ==
    {"password", "password.clone", "new_password", "new_password.clone",
     "wrapping_key_bytes", "wrap_key", "master_key_bytes", "encryption_key",
     "key_hex", "key_bytes_vec", "private_key", "unwrap_method.private_key", "wrapping_key"}

\* a buffer never held a secret ("none"), holds one ("live"), was overwritten
\* with zeros ("zeroed"), or went out of scope with the secret still in it
\* ("freed")
NoMem == [b \in Buffers |-> "none"]

\* the journal directories; directory d holds the vault file d/diary.db and
\* the backups directory d/backups, and 0 is a path that is no directory
Dirs == {1, 2}

\* DiaryState.db_path and backups_dir (by directory), the file the session's
\* connection has open, AppConfig (journals, active_journal_id, diary_dir),
\* and per directory the vault file and the backup file of the current minute
NoApp == [db_path |-> 0, backups_dir |-> 0, conn |-> 0,
          journals |-> <<>>, active |-> 0, diary_dir |-> 0,
          files |-> [d \in Dirs |-> NoImage], backup |-> [d \in Dirs |-> NoImage]]

Idle == [pc |-> "idle", cmd |-> "none", res |-> "none",
         pw |-> 0, sk |-> 0,          \* the credential passed in
         key |-> NoKey,               \* DatabaseConnection.encryption_key
         mk |-> NoKey,                \* master_key_bytes of migrate_v2_to_v3
         tx |-> NoImage,              \* working image of the open transaction
         todo |-> {},                 \* dates still to re-encrypt
         bpath |-> -1,                \* backup_path
         slot |-> 0, blob |-> NoBlob, \* pending write of a credential command
         count |-> -1,                \* count_auth_slots as read by remove_auth_method
         wire |-> NoWire,             \* the blob handed to unwrap_master_key / decrypt
         out |-> NoOut,               \* what unwrap_master_key / decrypt returned
         mem |-> NoMem,               \* the secret buffers the command has used
         id |-> 0,                    \* journal id or directory the command was given
         path |-> 0, bdir |-> 0,      \* db_path and backups_dir as cloned by the command
         did_lock |-> FALSE,          \* what lock_diary_inner returned
         date |-> 0, title |-> 0,     \* DiaryEntry.date and title the query was given
         rows |-> {},                 \* the entries a query returned, decrypted
         \* history, for the properties only
         d0 |-> NoImage,              \* vault image when the command started
         b0 |-> NoBackups,            \* backups directory when the command started
         t0 |-> NoImage,              \* vault image when the current transition started
         pre |-> {},                  \* images before each transition committed by this open
         bak |-> {},                  \* images backed up for the transitions committed by this open
         steps |-> 0,                 \* transformation statements executed by this open
         nre |-> 0,                   \* entries re-encrypted in the open transaction
         inj |-> FALSE,               \* an I/O failure was injected into this open
         rb |-> "none"]               \* outcome of ROLLBACK: "ok" / "failed"

Fail(t, res) == [thr[t] EXCEPT !.pc = "ret", !.res = res, !.tx = NoImage]

Injected(t, res) == [thr[t] EXCEPT !.pc = "ret", !.res = res, !.tx = NoImage, !.inj = TRUE]

\* ─── schema.rs: open_database ──────────────────────────────────────────────
\* the v1 -> v2 step is never taken
needs_v1_to_v2_never(version) == FALSE

needs_v1_to_v2(version) == version < 2

\* unlock_diary up to the first migration step of open_database
unlock_diary(t, password) ==
    /\ thr[t].pc = "idle"
    /\ LET me == [thr[t] EXCEPT !.cmd = "unlock_diary", !.pw = password, !.d0 = disk, !.b0 = backups]
           v == current_version(disk)
       IN  IF v >= 3
           THEN \* open_v3_with_password
                IF ~HasPasswordSlot(disk)
                THEN /\ thr' = [thr EXCEPT ![t] = [me EXCEPT !.pc = "ret", !.res = "No password auth slot found"]]
                     /\ UNCHANGED disk
                ELSE LET s == get_password_slot(disk)
                     IN  IF ~PasswordMethod_unwrap_ok(password, s.wrapped)
                         THEN /\ thr' = [thr EXCEPT ![t] = [me EXCEPT !.pc = "ret", !.res = "Incorrect password"]]
                              /\ UNCHANGED disk
                         ELSE /\ disk' = touch_last_used(disk, s.id, now)
                              /\ thr' = [thr EXCEPT ![t] = [me EXCEPT !.pc = "m34",
                                             !.key = PasswordMethod_unwrap_master_key(password, s.wrapped)]]
           ELSE \* v1/v2: verify against the legacy metadata table
                /\ UNCHANGED disk
                /\ IF disk.phc = NoPhc
                   THEN thr' = [thr EXCEPT ![t] = [me EXCEPT !.pc = "ret", !.res = "Failed to retrieve password hash"]]
                   ELSE IF ~verify_password(password, disk.phc)
                   THEN thr' = [thr EXCEPT ![t] = [me EXCEPT !.pc = "ret", !.res = "Incorrect password"]]
                   ELSE thr' = [thr EXCEPT ![t] = [me EXCEPT
                                   !.pc = IF needs_v1_to_v2(v) THEN "m12_backup" ELSE "m23_backup",
                                   !.key = derive_key_from_phc_hash(disk.phc)]]
    /\ UNCHANGED <<backups, now, db, mutex, app>>

\* unlock_diary_with_keypair up to migrate_v3_to_v4 of open_database_with_keypair
unlock_diary_with_keypair(t, private_key) ==
    /\ thr[t].pc = "idle"
    /\ LET me == [thr[t] EXCEPT !.cmd = "unlock_diary_with_keypair", !.sk = private_key,
                                !.d0 = disk, !.b0 = backups]
           matching == KeypairSlots(disk, PublicKey(private_key))
       IN  IF current_version(disk) < 3
           THEN /\ thr' = [thr EXCEPT ![t] = [me EXCEPT !.pc = "ret", !.res = "Key file authentication requires a migrated diary"]]
                /\ UNCHANGED disk
           ELSE IF matching = {}
           THEN /\ thr' = [thr EXCEPT ![t] = [me EXCEPT !.pc = "ret", !.res = "No keypair auth method found"]]
                /\ UNCHANGED disk
           ELSE \E s \in matching :      \* LIMIT 1 without ORDER BY
                  IF ~PrivateKeyMethod_unwrap_ok(private_key, s.wrapped)
                  THEN /\ thr' = [thr EXCEPT ![t] = [me EXCEPT !.pc = "ret", !.res = "Failed to unlock with key file"]]
                       /\ UNCHANGED disk
                  ELSE /\ disk' = touch_last_used(disk, s.id, now)
                       /\ thr' = [thr EXCEPT ![t] = [me EXCEPT !.pc = "m34",
                                      !.key = PrivateKeyMethod_unwrap_master_key(private_key, s.wrapped)]]
    /\ UNCHANGED <<backups, now, db, mutex, app>>

\* ─── schema.rs: transactions ───────────────────────────────────────────────
\* COMMIT makes the working image the committed one; ROLLBACK, like dropping
\* the connection with the transaction still open, discards it.
commit(committed, working) == working

\* a ROLLBACK that leaves the statements of the transaction in place
rollback_keeps_changes(committed, working) == working

rollback(committed, working) == committed

\* ─── schema.rs: migrate_v1_to_v2 ───────────────────────────────────────────
migrate_v1_to_v2_backup(t) ==
    /\ thr[t].pc = "m12_backup"
    /\ \/ /\ backups' = create_backup(backups, now, disk)
          /\ thr' = [thr EXCEPT ![t].pc = "m12_begin", ![t].bpath = now, ![t].t0 = disk]
       \/ /\ thr' = [thr EXCEPT ![t] = [Injected(t, "Failed to create pre-migration backup") EXCEPT !.t0 = disk]]
          /\ UNCHANGED backups
    /\ UNCHANGED <<disk, now, db, mutex, app>>

\* BEGIN IMMEDIATE TRANSACTION
migrate_v1_to_v2_begin(t) ==
    /\ thr[t].pc = "m12_begin"
    /\ thr' = [thr EXCEPT ![t].pc = "m12_drop", ![t].tx = disk]
    /\ UNCHANGED <<disk, backups, now, db, mutex, app>>

\* DROP TRIGGER IF EXISTS ...; DROP TABLE IF EXISTS entries_fts
migrate_v1_to_v2_drop(t) ==
    /\ thr[t].pc = "m12_drop"
    /\ \/ thr' = [thr EXCEPT ![t].pc = "m12_bump", ![t].tx.fts = FALSE, ![t].steps = @ + 1]
       \/ thr' = [thr EXCEPT ![t].pc = "m12_rollback", ![t].inj = TRUE]
    /\ UNCHANGED <<disk, backups, now, db, mutex, app>>

\* DELETE FROM schema_version; INSERT INTO schema_version (version) VALUES (2)
migrate_v1_to_v2_bump(t) ==
    /\ thr[t].pc = "m12_bump"
    /\ \/ thr' = [thr EXCEPT ![t].pc = "m12_commit", ![t].tx.version = 2]
       \/ thr' = [thr EXCEPT ![t].pc = "m12_rollback", ![t].inj = TRUE]
    /\ UNCHANGED <<disk, backups, now, db, mutex, app>>

migrate_v1_to_v2_commit(t) ==
    /\ thr[t].pc = "m12_commit"
    /\ \/ /\ disk' = commit(disk, thr[t].tx)
          /\ thr' = [thr EXCEPT ![t].pc = "m23_backup", ![t].tx = NoImage,
                                ![t].pre = @ \cup {thr[t].t0},
                                ![t].bak = @ \cup {backups[thr[t].bpath]}]
       \/ /\ thr' = [thr EXCEPT ![t] = Injected(t, "Failed to commit migration")]
          /\ UNCHANGED disk
    /\ UNCHANGED <<backups, now, db, mutex, app>>

migrate_v1_to_v2_rollback(t) ==
    /\ thr[t].pc = "m12_rollback"
    /\ \/ /\ disk' = rollback(disk, thr[t].tx)
          /\ thr' = [thr EXCEPT ![t] = [Fail(t, "Migration v1->v2 failed (database unchanged): will retry next time")
                                            EXCEPT !.rb = "ok"]]
       \/ /\ thr' = [thr EXCEPT ![t] = [Injected(t, "CRITICAL: Migration v1->v2 failed AND rollback failed: RESTORE from backup")
                                            EXCEPT !.rb = "failed"]]
          /\ UNCHANGED disk
    /\ UNCHANGED <<backups, now, db, mutex, app>>

\* ─── schema.rs: migrate_v2_to_v3 ───────────────────────────────────────────
migrate_v2_to_v3_backup(t) ==
    /\ thr[t].pc = "m23_backup"
    /\ \/ /\ backups' = create_backup(backups, now, disk)
          /\ thr' = [thr EXCEPT ![t].pc = "m23_begin", ![t].bpath = now, ![t].t0 = disk]
       \/ /\ thr' = [thr EXCEPT ![t] = [Injected(t, "Failed to create pre-migration backup") EXCEPT !.t0 = disk]]
          /\ UNCHANGED backups
    /\ UNCHANGED <<disk, now, db, mutex, app>>

\* OsRng.fill_bytes(master_key_bytes); BEGIN IMMEDIATE TRANSACTION;
\* CREATE TABLE IF NOT EXISTS auth_slots; SELECT date FROM entries ORDER BY date
migrate_v2_to_v3_begin(t) ==
    /\ thr[t].pc = "m23_begin"
    /\ \E i \in MasterKeyIds :
         thr' = [thr EXCEPT ![t].pc = "m23_entries", ![t].mk = MasterKey(i), ![t].tx = disk,
                            ![t].todo = DOMAIN disk.entries, ![t].nre = 0]
    /\ UNCHANGED <<disk, backups, now, db, mutex, app>>

\* decrypt under the old key, encrypt under the master key; the variant keeps
\* using the key it decrypted with
reencrypt_entry_old_key(old_key, master_key, e, n1, n2) ==
    [title |-> encrypt(old_key, decrypt(old_key, e.title), n1),
     text  |-> encrypt(old_key, decrypt(old_key, e.text), n2)]

\* the variant blanks the record before writing it under the master key
reencrypt_entry_blank(old_key, master_key, e, n1, n2) ==
    [title |-> encrypt(master_key, 0, n1), text |-> encrypt(master_key, 0, n2)]

reencrypt_entry(old_key, master_key, e, n1, n2) ==
    [title |-> encrypt(master_key, decrypt(old_key, e.title), n1),
     text  |-> encrypt(master_key, decrypt(old_key, e.text), n2)]

\* one turn of `for (i, date) in dates.iter().enumerate()`
migrate_v2_to_v3_reencrypt(t) ==
    /\ thr[t].pc = "m23_entries"
    /\ thr[t].todo # {}
    /\ LET date == CHOOSE d \in thr[t].todo : \A o \in thr[t].todo : d <= o
           e == thr[t].tx.entries[date]
       IN  IF decrypt_ok(thr[t].key, e.title) /\ decrypt_ok(thr[t].key, e.text)
           THEN \E n1 \in Nonces, n2 \in Nonces :
                  thr' = [thr EXCEPT ![t].tx.entries[date] = reencrypt_entry(thr[t].key, thr[t].mk, e, n1, n2),
                                     ![t].todo = @ \ {date}, ![t].nre = @ + 1, ![t].steps = @ + 1]
           ELSE thr' = [thr EXCEPT ![t].pc = "m23_rollback"]
    /\ UNCHANGED <<disk, backups, now, db, mutex, app>>

\* wrap_master_key + INSERT INTO auth_slots ... VALUES ('password', 'Password', ...)
insert_auth_slot(image, type, public_key, wrapped_key) ==
    [image EXCEPT !.slots = @ \cup {Slot(image.seq + 1, type, public_key, wrapped_key)},
                  !.seq = @ + 1]

migrate_v2_to_v3_insert_slot(t) ==
    /\ thr[t].pc = "m23_entries"
    /\ thr[t].todo = {}
    /\ \/ \E salt \in Salts, n \in Nonces :
            thr' = [thr EXCEPT ![t].pc = "m23_bump", ![t].steps = @ + 1,
                       ![t].tx = insert_auth_slot(thr[t].tx, "password", 0,
                                    PasswordMethod_wrap_master_key(thr[t].pw, thr[t].mk, salt, n))]
       \/ thr' = [thr EXCEPT ![t].pc = "m23_rollback", ![t].inj = TRUE]
    /\ UNCHANGED <<disk, backups, now, db, mutex, app>>

\* DELETE FROM schema_version; INSERT INTO schema_version (version) VALUES (3)
migrate_v2_to_v3_bump(t) ==
    /\ thr[t].pc = "m23_bump"
    /\ \/ thr' = [thr EXCEPT ![t].pc = "m23_commit", ![t].tx.version = 3]
       \/ thr' = [thr EXCEPT ![t].pc = "m23_rollback", ![t].inj = TRUE]
    /\ UNCHANGED <<disk, backups, now, db, mutex, app>>

\* COMMIT; db.encryption_key = master key
migrate_v2_to_v3_commit(t) ==
    /\ thr[t].pc = "m23_commit"
    /\ \/ /\ disk' = commit(disk, thr[t].tx)
          /\ thr' = [thr EXCEPT ![t].pc = "m34", ![t].tx = NoImage, ![t].key = thr[t].mk,
                                ![t].mk = NoKey, ![t].pre = @ \cup {thr[t].t0},
                                ![t].bak = @ \cup {backups[thr[t].bpath]}]
       \/ /\ thr' = [thr EXCEPT ![t] = [Injected(t, "Failed to commit migration") EXCEPT !.mk = NoKey]]
          /\ UNCHANGED disk
    /\ UNCHANGED <<backups, now, db, mutex, app>>

\* `let _ = db.conn.execute_batch("ROLLBACK")`: the outcome is not looked at
migrate_v2_to_v3_rollback(t) ==
    /\ thr[t].pc = "m23_rollback"
    /\ \/ /\ disk' = rollback(disk, thr[t].tx)
          /\ thr' = [thr EXCEPT ![t] = [Fail(t, "Migration v2->v3 failed: Restore from backup")
                                            EXCEPT !.rb = "ok", !.mk = NoKey]]
       \/ /\ thr' = [thr EXCEPT ![t] = [Injected(t, "Migration v2->v3 failed: Restore from backup")
                                            EXCEPT !.rb = "failed", !.mk = NoKey]]
          /\ UNCHANGED disk
    /\ UNCHANGED <<backups, now, db, mutex, app>>

\* ─── schema.rs: migrate_v3_to_v4 ───────────────────────────────────────────
\* the v3 -> v4 step runs on every open
needs_v3_to_v4_always(version) == version <= 4

\* the variant never takes the step
needs_v3_to_v4_never(version) == FALSE

needs_v3_to_v4(version) == version < 4

\* `.unwrap_or(3)`
version_or_3(image) == IF image.version = 0 THEN 3 ELSE image.version

migrate_v3_to_v4_skip(t) ==
    /\ thr[t].pc = "m34"
    /\ ~needs_v3_to_v4(version_or_3(disk))
    /\ thr' = [thr EXCEPT ![t].pc = "opened"]
    /\ UNCHANGED <<disk, backups, now, db, mutex, app>>

\* DROP TABLE IF EXISTS entries_fts  (autocommit: no transaction is open)
migrate_v3_to_v4_drop(t) ==
    /\ thr[t].pc = "m34"
    /\ needs_v3_to_v4(version_or_3(disk))
    /\ \/ /\ disk' = [disk EXCEPT !.fts = FALSE]
          /\ thr' = [thr EXCEPT ![t].pc = "m34_bump", ![t].t0 = disk, ![t].steps = @ + 1]
       \/ /\ thr' = [thr EXCEPT ![t] = [Injected(t, "Migration v3->v4 failed") EXCEPT !.t0 = disk]]
          /\ UNCHANGED disk
    /\ UNCHANGED <<backups, now, db, mutex, app>>

\* UPDATE schema_version SET version = 4
migrate_v3_to_v4_bump(t) ==
    /\ thr[t].pc = "m34_bump"
    /\ \/ /\ disk' = [disk EXCEPT !.version = IF @ = 0 THEN 0 ELSE 4]
          /\ thr' = [thr EXCEPT ![t].pc = "opened", ![t].pre = @ \cup {thr[t].t0}]
       \/ /\ thr' = [thr EXCEPT ![t] = Injected(t, "Failed to update schema version")]
          /\ UNCHANGED disk
    /\ UNCHANGED <<backups, now, db, mutex, app>>

\* ─── commands/auth/auth_core.rs: the rest of unlock_diary[_with_keypair] ───
\* *db_state = Some(db_conn)
unlock_set_session(t) ==
    /\ thr[t].pc = "opened"
    /\ mutex = 0
    /\ db' = [open |-> TRUE, key |-> thr[t].key]
    /\ thr' = [thr EXCEPT ![t].pc = "post_backup"]
    /\ UNCHANGED <<disk, backups, now, mutex, app>>

\* if let Err(e) = backup_and_rotate(..) { warn!(..) }
unlock_backup_and_rotate(t) ==
    /\ thr[t].pc = "post_backup"
    /\ \/ backups' = backup_and_rotate(backups, now, disk)
       \/ UNCHANGED backups
    /\ thr' = [thr EXCEPT ![t].pc = "ret", ![t].res = "ok"]
    /\ UNCHANGED <<disk, now, db, mutex, app>>

\* the command has returned to the frontend
Return(t) ==
    /\ thr[t].pc = "ret"
    /\ thr' = [thr EXCEPT ![t] = Idle]
    /\ UNCHANGED <<disk, backups, now, db, mutex, app>>

\* ─── commands/auth/mod.rs: lock_diary_inner ────────────────────────────────
lock_diary(t) ==
    /\ thr[t].pc = "idle"
    /\ mutex = 0
    /\ db.open
    /\ db' = Locked
    /\ UNCHANGED <<disk, backups, now, mutex, thr, app>>

\* the wall clock moves on to the next minute
Tick ==
    /\ now < MaxClock
    /\ now' = now + 1
    /\ UNCHANGED <<disk, backups, db, mutex, thr, app>>

\* ─── schema.rs: create_database ────────────────────────────────────────────
\* create_schema + the password slot wrapping a fresh master key
create_database(password, master_key, salt, nonce) ==
    [version |-> SCHEMA_VERSION, phc |-> NoPhc, entries |-> <<>>, fts |-> FALSE,
     slots |-> {Slot(1, "password", 0, PasswordMethod_wrap_master_key(password, master_key, salt, nonce))},
     seq |-> 1]

\* ─── Vaults found on disk when the application starts ──────────────────────
EntriesUnder(key, present, corrupt) ==
    [d \in present |-> IF d \in corrupt THEN CorruptEntry(key, d) ELSE Entry(key, d)]

\* generation 1 and 2 (tests::create_v1_database, add_legacy_entry): the
\* password hash sits in metadata and its derived key encrypts the entries of
\* the first n dates; a generation-1 schema always has the entries_fts table
LegacyVaults ==
    LET phc == hash_password(1, 1)
    IN  {[version |-> v, phc |-> phc, entries |-> EntriesUnder(derive_key_from_phc_hash(phc), 1..n, C),
          fts |-> (v < 2 \/ f), slots |-> {}, seq |-> 0] :
            v \in {0, 1, 2}, f \in BOOLEAN, n \in 0..NumDates, C \in SUBSET Dates}

WithKeypair(image, private_key, master_key) ==
    insert_auth_slot(image, "keypair", PublicKey(private_key),
        KeypairMethod_wrap_master_key(PublicKey(private_key), master_key, 11, 1))

\* generation 3 and 4: written by create_database, possibly by a release
\* that still kept the plaintext entries_fts table (generation 3)
CurrentVaults ==
    LET base == create_database(1, MasterKey(1), 1, 1)
    IN  {[b EXCEPT !.version = v, !.fts = f, !.entries = EntriesUnder(MasterKey(1), S, {})] :
            b \in {base, WithKeypair(base, 1, MasterKey(1))},
            v \in {3, 4}, f \in BOOLEAN, S \in {{}, Dates}}

\* a current vault whose keypair blob was damaged on disk: the slot is found by
\* the public key of private key 1, but its blob does not unwrap under it
DamagedVaults ==
    LET base == create_database(1, MasterKey(1), 1, 1)
        blob == KeypairMethod_wrap_master_key(PublicKey(2), MasterKey(1), 11, 1)
    IN  {[insert_auth_slot(base, "keypair", PublicKey(1), blob)
             EXCEPT !.entries = EntriesUnder(MasterKey(1), Dates, {})]}

Init ==
    /\ disk \in LegacyVaults \cup DamagedVaults
                \cup {d \in CurrentVaults : d.version = SCHEMA_VERSION => ~d.fts}
    /\ backups = NoBackups
    /\ now = 0
    /\ db = Locked
    /\ mutex = 0
    /\ thr = [t \in Threads |-> Idle]
    /\ app = NoApp

OpenStep(t) ==
    \/ \E password \in Passwords : unlock_diary(t, password)
    \/ \E private_key \in PrivateKeys : unlock_diary_with_keypair(t, private_key)
    \/ migrate_v1_to_v2_backup(t)
    \/ migrate_v1_to_v2_begin(t)
    \/ migrate_v1_to_v2_drop(t)
    \/ migrate_v1_to_v2_bump(t)
    \/ migrate_v1_to_v2_commit(t)
    \/ migrate_v1_to_v2_rollback(t)
    \/ migrate_v2_to_v3_backup(t)
    \/ migrate_v2_to_v3_begin(t)
    \/ migrate_v2_to_v3_reencrypt(t)
    \/ migrate_v2_to_v3_insert_slot(t)
    \/ migrate_v2_to_v3_bump(t)
    \/ migrate_v2_to_v3_commit(t)
    \/ migrate_v2_to_v3_rollback(t)
    \/ migrate_v3_to_v4_skip(t)
    \/ migrate_v3_to_v4_drop(t)
    \/ migrate_v3_to_v4_bump(t)
    \/ unlock_set_session(t)
    \/ unlock_backup_and_rotate(t)
    \/ Return(t)

\* one frontend thread opening, locking and re-opening the vault
Next ==
    \/ OpenStep(1)
    \/ lock_diary(1)
    \/ Tick

Spec == Init /\ [][Next]_vars

\* ═══ Properties of the migration engine (Spec) ═════════════════════════════
LegacyKey(image) == derive_key_from_phc_hash(image.phc)

Readable(key, image, d) ==
    /\ d \in DOMAIN image.entries
    /\ decrypt_ok(key, image.entries[d].title)
    /\ decrypt_ok(key, image.entries[d].text)

\* the entry of date d reads under k2 in image2 what it read under k1 in image1
SamePlaintext(k1, image1, k2, image2, d) ==
    /\ Readable(k2, image2, d)
    /\ decrypt(k2, image2.entries[d].title) = decrypt(k1, image1.entries[d].title)
    /\ decrypt(k2, image2.entries[d].text) = decrypt(k1, image1.entries[d].text)

\* open_database has not returned Ok yet, or has returned an error
InOpenDatabase(t) ==
    /\ thr[t].cmd \in {"unlock_diary", "unlock_diary_with_keypair"}
    /\ thr[t].pc \notin {"idle", "post_backup"}
    /\ ~(thr[t].pc = "ret" /\ thr[t].res = "ok")

\* C1: when the transform of 1 -> 2 or 2 -> 3 fails and the rollback succeeds,
\* the generation on disk is the one before the failing step and every entry
\* that decrypted under the legacy key before the call still decrypts under
\* it to the same plaintext.
C1_MigrationAtomicity ==
    \A t \in Threads :
      (thr[t].pc = "ret" /\ thr[t].rb = "ok") =>
        /\ current_version(disk) = current_version(thr[t].t0)
        /\ current_version(disk) \in {1, 2}
        /\ \A d \in Dates :
             Readable(LegacyKey(thr[t].d0), thr[t].d0, d) =>
               SamePlaintext(LegacyKey(thr[t].d0), thr[t].d0, LegacyKey(thr[t].d0), disk, d)

\* a generation-1 vault with a valid and a corrupted entry: 1 -> 2 committed,
\* 2 -> 3 re-encrypted the valid entry, failed on the other and rolled back
C1_Witness ==
    \E t \in Threads :
      /\ thr[t].pc = "ret" /\ thr[t].rb = "ok" /\ thr[t].nre >= 1
      /\ current_version(thr[t].d0) = 1
      /\ \E d \in Dates : Readable(LegacyKey(thr[t].d0), thr[t].d0, d)
      /\ \E d \in DOMAIN thr[t].d0.entries : ~Readable(LegacyKey(thr[t].d0), thr[t].d0, d)

AllReadable(key, image) == \A d \in DOMAIN image.entries : Readable(key, image, d)

\* C2: open_database with the correct password on a generation 1 or 2 vault
\* whose entries all decrypt under the legacy key returns, unless an I/O
\* failure is injected, a session on a generation-4 vault holding the same
\* entries, each decrypting under the session key to its original plaintext.
C2_EndToEndMigration ==
    \A t \in Threads :
      LET d0 == thr[t].d0 IN
      ( /\ thr[t].cmd = "unlock_diary"
        /\ d0.version \in {0, 1, 2}
        /\ verify_password(thr[t].pw, d0.phc)
        /\ AllReadable(LegacyKey(d0), d0) ) =>
          /\ thr[t].pc = "opened" =>
               /\ disk.version = SCHEMA_VERSION
               /\ DOMAIN disk.entries = DOMAIN d0.entries
               /\ \A d \in DOMAIN d0.entries :
                    /\ SamePlaintext(LegacyKey(d0), d0, thr[t].key, disk, d)
                    /\ decrypt(thr[t].key, disk.entries[d].title) = TitleOf(d)
                    /\ decrypt(thr[t].key, disk.entries[d].text) = TextOf(d)
          /\ (thr[t].pc = "ret" /\ thr[t].res # "ok") => thr[t].inj

C2_Witness ==
    \E t \in Threads :
      /\ thr[t].cmd = "unlock_diary" /\ thr[t].pc = "opened"
      /\ thr[t].d0.version \in {0, 1}
      /\ DOMAIN thr[t].d0.entries = Dates
      /\ AllReadable(LegacyKey(thr[t].d0), thr[t].d0)

\* C3: open_database / open_database_with_keypair on a generation-4 vault
\* executes no transformation statement, leaves generation, entries, search
\* table and the wrapped keys of all auth slots as they were, and writes no
\* backup file, however often the vault is opened.
C3_MigrationIdempotence ==
    \A t \in Threads :
      (InOpenDatabase(t) /\ thr[t].d0.version = SCHEMA_VERSION) =>
        /\ thr[t].steps = 0
        /\ disk.version = SCHEMA_VERSION
        /\ disk.entries = thr[t].d0.entries
        /\ disk.fts = thr[t].d0.fts
        /\ WrappedKeys(disk) = WrappedKeys(thr[t].d0)
        /\ backups = thr[t].b0

\* a second open, by key file, of a generation-4 vault that was unlocked before
C3_Witness ==
    \E t \in Threads :
      /\ thr[t].cmd = "unlock_diary_with_keypair" /\ thr[t].pc = "opened"
      /\ thr[t].d0.version = SCHEMA_VERSION
      /\ thr[t].b0 # NoBackups
      /\ \E s \in thr[t].d0.slots : s.last_used >= 0

\* what a migration step changes besides the generation number
MigratedData(image) == <<image.fts, image.entries, {s.id : s \in image.slots}>>

\* C4: every mutation of the vault by a transition (1 -> 2, 2 -> 3, 3 -> 4) is
\* preceded by a backup holding the image before the transition, and a backup
\* that cannot be written leaves the vault as it was before the transition.
C4_BackupBeforeMutation ==
    [][ /\ (MigratedData(disk') # MigratedData(disk) \/ disk'.version # disk.version) =>
              \E c \in Clock : backups[c] = disk
        /\ \A t \in Threads :
              thr'[t].res = "Failed to create pre-migration backup" => disk' = thr'[t].t0
      ]_vars

UnchangedRetryMessages == {"Migration v1->v2 failed (database unchanged): will retry next time"}

CriticalMessages == {"CRITICAL: Migration v1->v2 failed AND rollback failed: RESTORE from backup"}

TransformFailureMessages ==
    UnchangedRetryMessages \cup CriticalMessages \cup
    {"Migration v2->v3 failed: Restore from backup", "Migration v3->v4 failed", "Failed to update schema version"}

\* C5: the outcome of the rollback that follows a failed transform decides the
\* error: when the rollback succeeded the error says the vault is unchanged
\* and the migration will be retried, when it failed the error is the critical
\* one asking for a manual restore.
C5_MigrationErrorReporting ==
    \A t \in Threads :
      (thr[t].pc = "ret" /\ thr[t].res \in TransformFailureMessages) =>
        /\ thr[t].rb = "ok" => thr[t].res \in UnchangedRetryMessages
        /\ thr[t].rb = "failed" => thr[t].res \in CriticalMessages

\* C6: the work of a transition and its new generation number reach the disk
\* together: whenever the data a transform touches changes on disk, the
\* generation on disk moves from n to n+1 in the same step.
C6_VersionBumpAtomic ==
    [][ MigratedData(disk') # MigratedData(disk) =>
            current_version(disk') = current_version(disk) + 1 ]_vars

\* C7: the generation on disk never decreases and changes only from n to n+1,
\* a vault without a stored generation counting as generation 1.
C7_SequentialGenerations ==
    [][ \/ current_version(disk') = current_version(disk)
        \/ current_version(disk') = current_version(disk) + 1 ]_vars

\* a vault without stored generation has been taken through 2 and 3 to 4
C7_Witness ==
    \E t \in Threads :
      /\ thr[t].pc = "opened" /\ thr[t].d0.version = 0
      /\ disk.version = SCHEMA_VERSION
      /\ Cardinality(thr[t].pre) = 3

\* C8: when open_database and unlock_diary return, the backup written for
\* each transition the open committed still exists, holding the vault image
\* from just before that transition.
C8_BackupSurvives ==
    \A t \in Threads :
      (thr[t].pc = "opened" \/ (thr[t].pc = "ret" /\ thr[t].res = "ok")) =>
        \A image \in thr[t].bak : \E c \in Clock : backups[c] = image

\* ═══ Credential commands (commands/auth/auth_methods.rs, auth_core.rs) ═════
\* Each command takes the DiaryState.db mutex, runs its checks, performs its
\* one write and releases the mutex on return.  The checks and the write are
\* two steps; the mutex is held in between.
mutex_free(holder) == holder = 0

\* the variant has inserted a row by the time its check fails
Reject_after_insert(t, cmd, res, seen) ==
    /\ thr' = [thr EXCEPT ![t] = [Idle EXCEPT !.pc = "ret", !.cmd = cmd, !.res = res, !.count = seen]]
    /\ disk' = [disk EXCEPT !.slots = @ \cup {Slot(disk.seq + 1, "password", 0, NoBlob)},
                            !.seq = @ + 1]
    /\ UNCHANGED <<backups, now, db, mutex, app>>

Reject(t, cmd, res, seen) ==
    /\ thr' = [thr EXCEPT ![t] = [Idle EXCEPT !.pc = "ret", !.cmd = cmd, !.res = res, !.count = seen]]
    /\ UNCHANGED <<disk, backups, now, db, mutex, app>>

Proceed(t, cmd, slot_id, blob, seen) ==
    /\ thr' = [thr EXCEPT ![t] = [Idle EXCEPT !.pc = "write", !.cmd = cmd, !.slot = slot_id,
                                              !.blob = blob, !.count = seen]]
    /\ mutex' = t
    /\ UNCHANGED <<disk, backups, now, db, app>>

\* queries::update_auth_slot_wrapped_key; the variant's UPDATE matches no row
update_auth_slot_wrapped_key_no_row(image, slot_id, wrapped_key) == image

\* the variant's UPDATE has no WHERE clause
update_auth_slot_wrapped_key_all_rows(image, slot_id, wrapped_key) ==
    [image EXCEPT !.slots = {[s EXCEPT !.wrapped = wrapped_key] : s \in image.slots}]

update_auth_slot_wrapped_key(image, slot_id, wrapped_key) ==
    [image EXCEPT !.slots = {IF s.id = slot_id THEN [s EXCEPT !.wrapped = wrapped_key] ELSE s : s \in image.slots}]

\* queries::delete_auth_slot
delete_auth_slot(image, slot_id) ==
    [image EXCEPT !.slots = {s \in image.slots : s.id # slot_id}]

\* new_password.len(): a short password has 7 characters, the others 8
len(password) == IF password \in ShortPasswords THEN 7 ELSE 8

\* register_password, up to insert_auth_slot
register_password(t, new_password) ==
    /\ thr[t].pc = "idle"
    /\ mutex_free(mutex)
    /\ disk.seq < MaxSlotId
    /\ IF len(new_password) < 8
       THEN Reject(t, "register_password", "Password must be at least 8 characters", Idle.count)
       ELSE IF ~db.open THEN Reject(t, "register_password", "Diary must be unlocked", Idle.count)
       ELSE IF HasPasswordSlot(disk)
       THEN Reject(t, "register_password", "A password method already exists", Idle.count)
       ELSE \E salt \in Salts, n \in Nonces :
              Proceed(t, "register_password", 0,
                      PasswordMethod_wrap_master_key(new_password, db.key, salt, n), Idle.count)

\* register_keypair, up to insert_auth_slot; public key 0 is malformed hex
register_keypair(t, current_password, public_key) ==
    /\ thr[t].pc = "idle"
    /\ mutex_free(mutex)
    /\ disk.seq < MaxSlotId
    /\ IF ~db.open THEN Reject(t, "register_keypair", "Diary must be unlocked", Idle.count)
       ELSE IF ~HasPasswordSlot(disk)
       THEN Reject(t, "register_keypair", "No password auth method found", Idle.count)
       ELSE IF ~PasswordMethod_unwrap_ok(current_password, get_password_slot(disk).wrapped)
       THEN Reject(t, "register_keypair", "Incorrect password", Idle.count)
       ELSE IF public_key = 0
       THEN Reject(t, "register_keypair", "Invalid public key", Idle.count)
       ELSE IF KeypairSlots(disk, public_key) # {}
       THEN Reject(t, "register_keypair", "A keypair with this public key is already registered", Idle.count)
       ELSE \E e \in EphemeralSecrets, n \in Nonces :
              Proceed(t, "register_keypair", public_key,
                      KeypairMethod_wrap_master_key(public_key,
                          PasswordMethod_unwrap_master_key(current_password, get_password_slot(disk).wrapped),
                          e, n), Idle.count)

\* change_password, up to update_auth_slot_wrapped_key
change_password(t, old_password, new_password) ==
    /\ thr[t].pc = "idle"
    /\ mutex_free(mutex)
    /\ IF ~db.open THEN Reject(t, "change_password", "Diary must be unlocked to change password", Idle.count)
       ELSE IF ~HasPasswordSlot(disk)
       THEN Reject(t, "change_password", "No password auth method found", Idle.count)
       ELSE IF ~PasswordMethod_unwrap_ok(old_password, get_password_slot(disk).wrapped)
       THEN Reject(t, "change_password", "Incorrect current password", Idle.count)
       ELSE \E salt \in Salts, n \in Nonces :
              Proceed(t, "change_password", get_password_slot(disk).id,
                      PasswordMethod_wrap_master_key(new_password,
                          PasswordMethod_unwrap_master_key(old_password, get_password_slot(disk).wrapped),
                          salt, n), Idle.count)

\* remove_auth_method: `if count <= 1 { return Err(..) }`; the variant has the
\* comparison off by one
is_last_slot_off_by_one(count) == count <= 0

is_last_slot(count) == count <= 1

\* remove_auth_method, up to delete_auth_slot
remove_auth_method(t, slot_id, current_password) ==
    /\ thr[t].pc = "idle"
    /\ mutex_free(mutex)
    /\ IF ~db.open THEN Reject(t, "remove_auth_method", "Diary must be unlocked", Idle.count)
       ELSE IF ~HasPasswordSlot(disk)
       THEN Reject(t, "remove_auth_method", "No password auth method found", Idle.count)
       ELSE IF ~PasswordMethod_unwrap_ok(current_password, get_password_slot(disk).wrapped)
       THEN Reject(t, "remove_auth_method", "Incorrect password", Idle.count)
       ELSE IF is_last_slot(count_auth_slots(disk))
       THEN Reject(t, "remove_auth_method", "Cannot remove the last authentication method", count_auth_slots(disk))
       ELSE Proceed(t, "remove_auth_method", slot_id, NoBlob, count_auth_slots(disk))

\* the write of the command, then Ok(()) and the mutex guard is dropped
command_write(t) ==
    /\ thr[t].pc = "write"
    /\ disk' = CASE thr[t].cmd = "register_password" ->
                      insert_auth_slot(disk, "password", 0, thr[t].blob)
                 [] thr[t].cmd = "register_keypair" ->
                      insert_auth_slot(disk, "keypair", thr[t].slot, thr[t].blob)
                 [] thr[t].cmd = "change_password" ->
                      update_auth_slot_wrapped_key(disk, thr[t].slot, thr[t].blob)
                 [] thr[t].cmd = "remove_auth_method" ->
                      delete_auth_slot(disk, thr[t].slot)
    /\ thr' = [thr EXCEPT ![t].pc = "ret", ![t].res = "ok"]
    /\ mutex' = 0
    /\ UNCHANGED <<backups, now, db, app>>

Command(t) ==
    \/ \E new_password \in Passwords \cup ShortPasswords : register_password(t, new_password)
    \/ \E current_password \in Passwords, private_key \in PrivateKeys :
         register_keypair(t, current_password, PublicKey(private_key))
    \/ \E current_password \in Passwords : register_keypair(t, current_password, 0)
    \/ \E old_password \in Passwords, new_password \in Passwords :
         change_password(t, old_password, new_password)
    \/ \E slot_id \in 1..MaxSlotId, current_password \in Passwords :
         remove_auth_method(t, slot_id, current_password)
    \/ command_write(t)

\* ─── The session left by unlock_diary on a vault of the current generation ─
InitAuth ==
    /\ disk \in {d \in CurrentVaults : d.version = SCHEMA_VERSION /\ ~d.fts /\ DOMAIN d.entries = Dates}
    /\ db = [open |-> TRUE, key |-> MasterKey(1)]
    /\ backups = NoBackups
    /\ now = 0
    /\ mutex = 0
    /\ thr = [t \in Threads |-> Idle]
    /\ app = NoApp

\* two frontend threads issuing credential commands against the session,
\* until one of them locks it
NextAuth ==
    \/ \E t \in Threads : Command(t)
    \/ \E t \in Threads : Return(t)
    \/ \E t \in Threads : lock_diary(t)

SpecAuth == InitAuth /\ [][NextAuth]_vars

\* ═══ Properties of the credential commands (SpecAuth) ══════════════════════
\* C9: whatever credential commands run, and however their steps interleave,
\* the vault of an unlocked session holds at least one auth slot; removal with
\* exactly one slot present fails and leaves that slot in place.
C9_LastSlotGuard ==
    /\ current_version(disk) >= 3 => count_auth_slots(disk) >= 1
    /\ \A t \in Threads :
         thr[t].cmd = "remove_auth_method" =>
            /\ thr[t].count = 1 =>
                  thr[t].pc = "ret" /\ thr[t].res # "ok"
            /\ thr[t].pc = "write" => count_auth_slots(disk) >= 2

\* a removal was refused by the guard after another removal had succeeded
C9_Witness ==
    \E t \in Threads :
      /\ thr[t].pc = "ret" /\ thr[t].cmd = "remove_auth_method"
      /\ thr[t].res = "Cannot remove the last authentication method"
      /\ count_auth_slots(disk) = 1
      /\ disk.seq >= 2

UnwrapsTo(s, master_key) ==
    IF s.type = "password"
    THEN \E password \in Passwords :
           /\ PasswordMethod_unwrap_ok(password, s.wrapped)
           /\ PasswordMethod_unwrap_master_key(password, s.wrapped) = master_key
    ELSE \E private_key \in PrivateKeys :
           /\ PublicKey(private_key) = s.pub
           /\ PrivateKeyMethod_unwrap_ok(private_key, s.wrapped)
           /\ PrivateKeyMethod_unwrap_master_key(private_key, s.wrapped) = master_key

\* C10: there is one master key which every auth slot's wrapped_key unwraps
\* to under the slot's own credential (its password, or the private key of
\* its public key), which is the key of the open session and the key under
\* which every entry is encrypted.
C10_SingleMasterKey ==
    current_version(disk) >= 3 =>
      \E i \in MasterKeyIds :
        /\ \A s \in disk.slots : UnwrapsTo(s, MasterKey(i))
        /\ db.open => db.key = MasterKey(i)
        /\ \A d \in DOMAIN disk.entries : Readable(MasterKey(i), disk, d)

\* an unlocked session on a vault with entries that holds a keypair slot next
\* to a password slot written by register_password after the first password
\* slot was removed
C10_Witness ==
    /\ db.open
    /\ DOMAIN disk.entries = Dates
    /\ \E s \in disk.slots : s.type = "keypair"
    /\ \E s \in disk.slots : s.type = "password" /\ s.id > 1 /\ s.wrapped.phc.pw = 2

\* ═══ One frontend thread: unlock, credential commands, lock (SpecSession) ═══
\* open_database and open_database_with_keypair on a vault of generation 3 or 4
OpenCurrent(t) ==
    \/ \E password \in Passwords : unlock_diary(t, password)
    \/ \E private_key \in PrivateKeys : unlock_diary_with_keypair(t, private_key)
    \/ migrate_v3_to_v4_skip(t)
    \/ migrate_v3_to_v4_drop(t)
    \/ migrate_v3_to_v4_bump(t)
    \/ unlock_set_session(t)
    \/ unlock_backup_and_rotate(t)

\* a generation-3 vault under password 1, holding entries and the plaintext
\* index, found locked when the application starts
InitSession ==
    /\ disk \in {d \in CurrentVaults : d.version = 3 /\ d.fts /\ DOMAIN d.entries = Dates
                                       /\ count_auth_slots(d) = 1}
    /\ db = Locked
    /\ backups = NoBackups
    /\ now = 0
    /\ mutex = 0
    /\ thr = [t \in Threads |-> Idle]
    /\ app = NoApp

NextSession ==
    \/ OpenCurrent(1)
    \/ Command(1)
    \/ Return(1)
    \/ lock_diary(1)

SpecSession == InitSession /\ [][NextSession]_vars

\* the outcome open_v3_with_password has on a vault image for a password
OpensWith(image, password) ==
    /\ HasPasswordSlot(image)
    /\ PasswordMethod_unwrap_ok(password, get_password_slot(image).wrapped)

\* C11: a successful change_password(old, new) with new # old leaves a vault
\* that open_database refuses for old and accepts for new, with every record
\* stored as before; and open_database on a generation 3 or 4 vault succeeds
\* exactly for the password its password slot is wrapped under, handing out
\* the key under which every record reads back with its plaintext.
C11_PasswordRotation ==
    /\ [][\A t \in Threads :
            (thr[t].pc = "write" /\ thr[t].cmd = "change_password" /\ thr'[t].pc = "ret") =>
               \A old \in Passwords, new \in Passwords :
                  (old # new /\ OpensWith(disk, old) /\ PasswordMethod_unwrap_ok(new, thr[t].blob)) =>
                     /\ thr'[t].res = "ok"
                     /\ ~OpensWith(disk', old)
                     /\ OpensWith(disk', new)
                     /\ disk'.entries = disk.entries]_vars
    /\ [](\A t \in Threads :
            (thr[t].cmd = "unlock_diary" /\ current_version(thr[t].d0) >= 3) =>
               /\ thr[t].res = "Incorrect password" =>
                    HasPasswordSlot(thr[t].d0) /\ ~OpensWith(thr[t].d0, thr[t].pw)
               /\ thr[t].res = "ok" =>
                    /\ OpensWith(thr[t].d0, thr[t].pw)
                    /\ db.open /\ db.key = thr[t].key
                    /\ \A d \in DOMAIN disk.entries :
                         /\ Readable(thr[t].key, disk, d)
                         /\ decrypt(thr[t].key, disk.entries[d].title) = TitleOf(d)
                         /\ decrypt(thr[t].key, disk.entries[d].text) = TextOf(d)
               /\ (thr[t].pc = "ret" /\ thr[t].res # "ok" /\ ~thr[t].inj
                   /\ OpensWith(thr[t].d0, thr[t].pw)) => FALSE)

\* unlock_diary with the new password 2 returned a session on a vault whose
\* first password slot was re-wrapped by change_password
C11_Witness ==
    \E t \in Threads :
      /\ thr[t].pc = "ret" /\ thr[t].cmd = "unlock_diary" /\ thr[t].res = "ok"
      /\ thr[t].pw = 2
      /\ \E s \in disk.slots : s.id = 1 /\ s.type = "password" /\ s.wrapped.phc.pw = 2
      /\ DOMAIN disk.entries = Dates

\* ═══ Frame of the credential commands (SpecAuth) ═══════════════════════════
\* thread t takes a step of the command: its checks, or its write and return
StepOf(t, cmd) ==
    /\ thr'[t] # thr[t]
    /\ thr'[t].cmd = cmd

\* C12: change_password changes nothing but the wrapped_key of the password
\* slot: its checks change nothing at all, and its write leaves the entries,
\* the generation, the session key, the backups and every other slot, and the
\* id, type, public key and last_used of the password slot, as they were.
C12_ChangePasswordOnlyRewraps ==
    [][\A t \in Threads :
         StepOf(t, "change_password") =>
            /\ db' = db /\ backups' = backups
            /\ disk'.entries = disk.entries
            /\ disk'.version = disk.version /\ disk'.fts = disk.fts /\ disk'.seq = disk.seq
            /\ {s \in disk'.slots : s.type # "password"} = {s \in disk.slots : s.type # "password"}
            /\ IF thr'[t].res # "ok"
               THEN disk'.slots = disk.slots
               ELSE /\ Cardinality(PasswordSlots(disk)) = 1
                    /\ PasswordSlots(disk') =
                         {[s EXCEPT !.wrapped = thr[t].blob] : s \in PasswordSlots(disk)}]_vars

\* change_password returned Ok on a vault that holds a keypair slot as well,
\* and the password slot now carries the new password 2
C12_Witness ==
    \E t \in Threads :
      /\ thr[t].pc = "ret" /\ thr[t].cmd = "change_password" /\ thr[t].res = "ok"
      /\ \E s \in disk.slots : s.type = "keypair"
      /\ \E s \in disk.slots : s.type = "password" /\ s.wrapped.phc.pw = 2
      /\ DOMAIN disk.entries = Dates

\* ═══ Keypair unlock (SpecSession) ══════════════════════════════════════════
\* the keypair slot open_database_with_keypair would pick for private_key
MatchingSlots(image, private_key) ==
    {s \in KeypairSlots(image, PublicKey(private_key)) :
        PrivateKeyMethod_unwrap_ok(private_key, s.wrapped)}

\* C13: once a keypair was registered in a password-unlocked session and the
\* diary was locked, open_database_with_keypair with the matching private key
\* succeeds, its session key is the key the password slot unwraps to, and
\* every entry reads under it with its plaintext.
C13_KeypairUnlockEquivalence ==
    \A t \in Threads :
      (thr[t].cmd = "unlock_diary_with_keypair" /\ thr[t].pc = "ret") =>
         /\ (current_version(thr[t].d0) >= 3 /\ MatchingSlots(thr[t].d0, thr[t].sk) # {} /\ ~thr[t].inj)
               => thr[t].res = "ok"
         /\ thr[t].res = "ok" =>
              /\ MatchingSlots(thr[t].d0, thr[t].sk) # {}
              /\ db.open /\ db.key = thr[t].key
              /\ \A password \in Passwords :
                   OpensWith(disk, password) =>
                      PasswordMethod_unwrap_master_key(password, get_password_slot(disk).wrapped) = db.key
              /\ \A d \in DOMAIN disk.entries :
                   /\ Readable(db.key, disk, d)
                   /\ decrypt(db.key, disk.entries[d].title) = TitleOf(d)
                   /\ decrypt(db.key, disk.entries[d].text) = TextOf(d)

\* the private key 2, whose public key was registered during the session,
\* has unlocked a vault that still holds its password slot and its entries
C13_Witness ==
    \E t \in Threads :
      /\ thr[t].cmd = "unlock_diary_with_keypair" /\ thr[t].pc = "ret" /\ thr[t].res = "ok"
      /\ thr[t].sk = 2
      /\ HasPasswordSlot(disk)
      /\ DOMAIN disk.entries = Dates

\* ═══ Failed authentication (Spec) ══════════════════════════════════════════
AuthFailures ==
    {"Incorrect password",
     "Key file authentication requires a migrated diary",
     "No keypair auth method found",
     "Failed to unlock with key file"}

\* the hash record a password is checked against: the one embedded in the
\* password slot from generation 3 on, the one of the metadata table before
StoredHash(image) ==
    IF current_version(image) >= 3
    THEN IF HasPasswordSlot(image) THEN get_password_slot(image).wrapped.phc ELSE NoPhc
    ELSE image.phc

\* the credential the call me was given is not one of the vault it started
\* on: a password other than the one its hash record was made from, a key
\* file where none can be used, or a private key no keypair slot unwraps under
WrongCredential(me) ==
    LET d0 == me.d0 IN
    \/ /\ me.cmd = "unlock_diary"
       /\ StoredHash(d0) # NoPhc
       /\ StoredHash(d0).pw # me.pw
    \/ /\ me.cmd = "unlock_diary_with_keypair"
       /\ current_version(d0) < 3 \/ MatchingSlots(d0, me.sk) = {}

\* C14: open_database with an incorrect password, at any generation, and
\* open_database_with_keypair below generation 3, with a key matching no slot
\* or with a key that does not unwrap its slot, return an error and no key in
\* the very step that starts them: no migration step, no backup, and the
\* vault (generation, entries, slots with their last_used), the backups
\* directory and the session are as they were.
C14_FailedAuthChangesNothing ==
    /\ [][\A t \in Threads :
            (thr[t].pc = "idle" /\ thr'[t].pc # "idle" /\ WrongCredential(thr'[t])) =>
               /\ thr'[t].pc = "ret"
               /\ disk' = disk /\ backups' = backups /\ db' = db]_vars
    /\ [](\A t \in Threads :
            (thr[t].pc # "idle" /\ WrongCredential(thr[t])) =>
               /\ thr[t].pc = "ret"
               /\ thr[t].res \in AuthFailures
               /\ thr[t].key = NoKey
               /\ thr[t].steps = 0 /\ thr[t].pre = {} /\ thr[t].bak = {}
               /\ disk = thr[t].d0 /\ backups = thr[t].b0)

\* a wrong password was refused on a generation-1 vault that holds entries
C14_Witness ==
    \E t \in Threads :
      /\ thr[t].pc = "ret" /\ thr[t].cmd = "unlock_diary" /\ thr[t].res = "Incorrect password"
      /\ current_version(disk) = 1 /\ disk.fts
      /\ DOMAIN disk.entries # {}

CredentialCommands ==
    {"change_password", "register_keypair", "register_password", "remove_auth_method"}

\* C15: a credential command that returns an error (diary locked, wrong
\* current password, malformed or duplicate public key, password slot already
\* present, last-slot guard) returns it from its checks, before its write,
\* and the step that returns it leaves the vault, auth_slots included, as it
\* was; a command that has reached its write returns Ok.
C15_RejectedMutatesNothing ==
    [][\A t \in Threads :
         /\ (thr'[t] # thr[t] /\ thr'[t].cmd \in CredentialCommands
               /\ thr'[t].pc = "ret" /\ thr'[t].res # "ok") =>
               /\ thr[t].pc = "idle"
               /\ disk'.slots = disk.slots
               /\ disk' = disk /\ db' = db
         /\ (thr[t].pc = "write" /\ thr'[t] # thr[t]) =>
               thr'[t].pc = "ret" /\ thr'[t].res = "ok"]_vars

\* a second registration of a public key was refused, with the first
\* registration and the password slot in place
C15_Witness ==
    \E t \in Threads :
      /\ thr[t].pc = "ret" /\ thr[t].cmd = "register_keypair"
      /\ thr[t].res = "A keypair with this public key is already registered"
      /\ Cardinality({s \in disk.slots : s.type = "keypair"}) = 1
      /\ HasPasswordSlot(disk)

\* C16: register_keypair with a public key a keypair slot already holds
\* fails, so whatever register_keypair and remove_auth_method calls have run,
\* on either thread, no two keypair slots hold the same public key.
C16_NoDuplicateKeypair ==
    /\ \A s1, s2 \in disk.slots :
         (s1.type = "keypair" /\ s2.type = "keypair" /\ s1.pub = s2.pub) => s1 = s2
    /\ \A t \in Threads :
         (thr[t].cmd = "register_keypair" /\ thr[t].pc = "write") =>
            \A s \in disk.slots : s.type = "keypair" => s.pub # thr[t].slot

\* a public key was registered during the session (its slot has a later id
\* than any the vault was created with), and a further registration of it
\* was refused
C16_Witness ==
    \E t \in Threads :
      /\ thr[t].pc = "ret" /\ thr[t].cmd = "register_keypair"
      /\ thr[t].res = "A keypair with this public key is already registered"
      /\ \E s \in disk.slots : s.type = "keypair" /\ s.pub = PublicKey(1) /\ s.id = MaxSlotId

\* ═══ Wrapped keys and encrypted fields as bytes (auth/*.rs, cipher.rs) ═════
HEADER_SIZE == 4
PHC_SIZE == 97      \* "$argon2id$v=19$m=65536,t=3,p=4$" + 22 + "$" + 43 characters
EPH_PUB_SIZE == 32
NONCE_SIZE == 12
TAG_SIZE == 16
KEY_SIZE == 32
KEYPAIR_MIN_SIZE == 60
U32_CAP == 2147483647   \* stands for the header values from 2^31 on

WrapSalts == {1, 2}
WrapEphemerals == {11, 12}
\* XOR masks of an altered byte: its lowest bits and its top bit
Masks == {1, 2, 128}

\* the regions of a blob, in order, with their sizes
Layout(fmt, n) ==
    CASE fmt = "password" ->
           <<<<"header", HEADER_SIZE>>, <<"phc", PHC_SIZE>>, <<"nonce", NONCE_SIZE>>,
             <<"ciphertext", n>>, <<"tag", TAG_SIZE>>>>
      [] fmt = "keypair" ->
           <<<<"eph", EPH_PUB_SIZE>>, <<"nonce", NONCE_SIZE>>,
             <<"ciphertext", n>>, <<"tag", TAG_SIZE>>>>
      [] OTHER ->
           <<<<"nonce", NONCE_SIZE>>, <<"ciphertext", n>>, <<"tag", TAG_SIZE>>>>

RECURSIVE EndOf(_, _)
\* offset of the first byte after region k
EndOf(layout, k) == IF k = 0 THEN 0 ELSE EndOf(layout, k - 1) + layout[k][2]

FullSize(fmt, n) == EndOf(Layout(fmt, n), Len(Layout(fmt, n)))

RegionAt(fmt, n, p) ==
    LET layout == Layout(fmt, n)
        k == CHOOSE i \in 1..Len(layout) : EndOf(layout, i - 1) <= p /\ p < EndOf(layout, i)
    IN  layout[k][1]

\* every header byte, and the first and the last byte of every other region
Positions(fmt, n) ==
    LET layout == Layout(fmt, n)
    IN  UNION {IF layout[k][1] = "header"
               THEN EndOf(layout, k - 1) .. (EndOf(layout, k) - 1)
               ELSE {EndOf(layout, k - 1), EndOf(layout, k) - 1} :
                 k \in {i \in 1..Len(layout) : layout[i][2] > 0}}

\* u32::to_be_bytes
to_be_bytes(v) ==
    <<v \div 16777216, (v \div 65536) % 256, (v \div 256) % 256, v % 256>>

\* u32::to_le_bytes
to_le_bytes(v) ==
    <<v % 256, (v \div 256) % 256, (v \div 65536) % 256, v \div 16777216>>

\* u32::from_le_bytes
from_le_bytes(b) ==
    IF b[4] >= 128 THEN U32_CAP
    ELSE b[1] + 256 * b[2] + 65536 * b[3] + 16777216 * b[4]

\* b XOR mask, for the one-bit masks
xor(b, mask) == IF (b \div mask) % 2 = 1 THEN b - mask ELSE b + mask

\* ─── the blobs the wrap functions and cipher::encrypt return ───────────────
PasswordMethod_wrap_bytes(password, master_key, salt, nonce, ascii) ==
    [fmt |-> "password", n |-> KEY_SIZE, len |-> FullSize("password", KEY_SIZE),
     hdr |-> to_le_bytes(PHC_SIZE),
     body |-> PasswordMethod_wrap_master_key(password, master_key, salt, nonce),
     hit |-> "none", pos |-> 0, mask |-> 0, ascii |-> ascii]

KeypairMethod_wrap_bytes(public_key, master_key, eph_secret, nonce) ==
    [fmt |-> "keypair", n |-> KEY_SIZE, len |-> FullSize("keypair", KEY_SIZE),
     hdr |-> <<0, 0, 0, 0>>,
     body |-> KeypairMethod_wrap_master_key(public_key, master_key, eph_secret, nonce),
     hit |-> "none", pos |-> 0, mask |-> 0, ascii |-> FALSE]

encrypt_bytes(key, plaintext, size, nonce) ==
    [fmt |-> "field", n |-> size, len |-> FullSize("field", size),
     hdr |-> <<0, 0, 0, 0>>,
     body |-> [phc |-> NoPhc, eph |-> 0, enc |-> encrypt(key, plaintext, nonce)],
     hit |-> "none", pos |-> 0, mask |-> 0, ascii |-> FALSE]

\* the blob is as the wrap function or cipher::encrypt returned it
Pristine(W) == W.hit = "none"

\* ─── what the unwrap functions and cipher::decrypt read from the bytes ─────
Err(message, cred, ops) == [err |-> message, key |-> NoKey, cred |-> cred, ops |-> ops]

Ok(value, cred, ops) == [err |-> "none", key |-> value, cred |-> cred, ops |-> ops]

\* the [nonce][ciphertext][tag] handed to cipher::decrypt: the blob as it was
\* encrypted when all of its bytes are there, in place and unaltered, and
\* bytes whose tag verifies under no key otherwise
aead_slice(W) ==
    IF /\ W.hit \notin {"nonce", "ciphertext", "tag"}
       /\ W.len = FullSize(W.fmt, W.n)
       /\ W.fmt = "password" => from_le_bytes(W.hdr) = PHC_SIZE
    THEN W.body.enc
    ELSE [W.body.enc EXCEPT !.k = NoKey]

\* cipher::decrypt on size bytes
cipher_decrypt(key, size, ciphertext, cred, ops) ==
    IF size < NONCE_SIZE + TAG_SIZE
    THEN Err("Decryption failed: Ciphertext too short", cred, ops)
    ELSE IF ~decrypt_ok(key, ciphertext)
    THEN Err("Decryption failed: aead::Error", cred, ops \cup {"aes_gcm"})
    ELSE Ok(decrypt(key, ciphertext), cred, ops \cup {"aes_gcm"})

\* std::str::from_utf8(&wrapped[4..4 + phc_len])
utf8_ok(W) ==
    LET phc_len == from_le_bytes(W.hdr)
    IN  /\ ~(W.hit = "phc" /\ W.pos - HEADER_SIZE < phc_len /\ W.mask = 128)
        /\ phc_len > PHC_SIZE => W.ascii

\* the hash record those bytes spell: the one written, when the slice is
\* exactly the record and none of its bytes was altered
phc_slice(W) ==
    IF from_le_bytes(W.hdr) = PHC_SIZE /\ W.hit # "phc" THEN W.body.phc ELSE NoPhc

\* PasswordMethod::unwrap_master_key
PasswordMethod_unwrap_bytes(password, W) ==
    LET phc_len == from_le_bytes(W.hdr) IN
    IF W.len < HEADER_SIZE
    THEN Err("Invalid wrapped key: too short", password, {})
    ELSE IF W.len - HEADER_SIZE < phc_len
    THEN Err("Invalid wrapped key: truncated phc hash", password, {})
    ELSE IF ~utf8_ok(W)
    THEN Err("Invalid wrapped key: non-UTF8 phc hash", password, {})
    ELSE IF ~verify_password(password, phc_slice(W))
    THEN Err("Incorrect password", password, {"verify_password"})
    ELSE LET wrap_key == derive_key_from_phc_hash(phc_slice(W))
             r == cipher_decrypt(wrap_key, W.len - HEADER_SIZE - phc_len, aead_slice(W), password,
                                 {"verify_password", "derive_key_from_phc_hash"})
         IN  IF r.err # "none" THEN [r EXCEPT !.err = "Incorrect password"] ELSE r

\* the first 32 bytes of the blob
eph_pub_bytes(W) ==
    IF W.hit # "eph" THEN W.body.eph
    ELSE IF W.pos = EPH_PUB_SIZE - 1 /\ W.mask = 128 THEN W.body.eph + HighBit
    ELSE W.body.eph + 1

\* PrivateKeyMethod::unwrap_master_key
PrivateKeyMethod_unwrap_bytes(private_key, W) ==
    IF W.len < KEYPAIR_MIN_SIZE
    THEN Err("Invalid wrapped key: too short", private_key, {})
    ELSE LET eph_pub == eph_pub_bytes(W)
             wrapping_key == hkdf(eph_pub, diffie_hellman(private_key, eph_pub))
             r == cipher_decrypt(wrapping_key, W.len - EPH_PUB_SIZE, aead_slice(W), private_key,
                                 {"diffie_hellman", "hkdf"})
         IN  IF r.err # "none"
             THEN [r EXCEPT !.err = "Failed to decrypt master key: wrong private key or corrupted data"]
             ELSE r

\* cipher::decrypt of an encrypted field
decrypt_bytes(key_id, W) ==
    cipher_decrypt(MasterKey(key_id), W.len, aead_slice(W), key_id, {})

\* ─── wrapping, altering and unwrapping a blob (SpecWrap) ───────────────────
\* PasswordMethod::wrap_master_key
wrap_password(t, key_id, password, salt, nonce, ascii) ==
    /\ thr[t].pc = "idle"
    /\ thr' = [thr EXCEPT ![t] = [Idle EXCEPT !.pc = "blob", !.cmd = "PasswordMethod",
                  !.pw = password, !.mk = MasterKey(key_id),
                  !.wire = PasswordMethod_wrap_bytes(password, MasterKey(key_id), salt, nonce, ascii)]]
    /\ UNCHANGED <<disk, backups, now, db, mutex, app>>

\* KeypairMethod::wrap_master_key for the public key of private_key
wrap_keypair(t, key_id, private_key, eph_secret, nonce) ==
    /\ thr[t].pc = "idle"
    /\ thr' = [thr EXCEPT ![t] = [Idle EXCEPT !.pc = "blob", !.cmd = "KeypairMethod",
                  !.sk = private_key, !.mk = MasterKey(key_id),
                  !.wire = KeypairMethod_wrap_bytes(PublicKey(private_key), MasterKey(key_id),
                                                    eph_secret, nonce)]]
    /\ UNCHANGED <<disk, backups, now, db, mutex, app>>

\* cipher::encrypt of the title of an entry, size bytes long
encrypt_field(t, key_id, d, size, nonce) ==
    /\ thr[t].pc = "idle"
    /\ thr' = [thr EXCEPT ![t] = [Idle EXCEPT !.pc = "blob", !.cmd = "cipher",
                  !.key = MasterKey(key_id),
                  !.wire = encrypt_bytes(MasterKey(key_id), TitleOf(d), size, nonce)]]
    /\ UNCHANGED <<disk, backups, now, db, mutex, app>>

\* one byte of the blob, at offset p, is XORed with mask
tamper(t, p, mask) ==
    /\ thr[t].pc = "blob"
    /\ LET W == thr[t].wire
           region == RegionAt(W.fmt, W.n, p)
       IN  /\ p \in Positions(W.fmt, W.n)
           /\ thr' = [thr EXCEPT ![t].pc = "altered",
                         ![t].wire = [W EXCEPT !.hit = region, !.pos = p, !.mask = mask,
                                         !.hdr = IF region = "header"
                                                 THEN [W.hdr EXCEPT ![p + 1] = xor(@, mask)]
                                                 ELSE W.hdr]]
    /\ UNCHANGED <<disk, backups, now, db, mutex, app>>

\* blob lengths around every length the unwrap functions compare with
Lengths(fmt, n) ==
    LET full == FullSize(fmt, n)
        min == CASE fmt = "password" -> HEADER_SIZE + PHC_SIZE + NONCE_SIZE + TAG_SIZE
                 [] fmt = "keypair" -> KEYPAIR_MIN_SIZE
                 [] OTHER -> NONCE_SIZE + TAG_SIZE
        hdr == IF fmt = "password"
               THEN {HEADER_SIZE - 1, HEADER_SIZE, HEADER_SIZE + PHC_SIZE - 1, HEADER_SIZE + PHC_SIZE}
               ELSE {}
    IN  {0, min - 1, min, full - 1, full} \cup hdr

HeaderValues(length) ==
    {0, PHC_SIZE - 1, PHC_SIZE, PHC_SIZE + 1, U32_CAP}
      \cup (IF length >= HEADER_SIZE THEN {length - HEADER_SIZE, length - HEADER_SIZE + 1} ELSE {})

\* the first length bytes of the blob, its header overwritten with value
craft(t, length, value) ==
    /\ thr[t].pc = "blob"
    /\ LET W == thr[t].wire
       IN  /\ length \in Lengths(W.fmt, W.n)
           /\ value \in (IF W.fmt = "password" THEN HeaderValues(length) ELSE {0})
           /\ thr' = [thr EXCEPT ![t].pc = "altered",
                         ![t].wire = [W EXCEPT !.len = length, !.hit = "cut",
                                         !.hdr = IF W.fmt = "password" THEN to_le_bytes(value) ELSE W.hdr]]
    /\ UNCHANGED <<disk, backups, now, db, mutex, app>>

Returned(t, out) ==
    [thr[t] EXCEPT !.pc = "ret", !.out = out, !.res = IF out.err = "none" THEN "ok" ELSE out.err]

unwrap_password(t, password) ==
    /\ thr[t].pc \in {"blob", "altered"}
    /\ thr[t].wire.fmt = "password"
    /\ thr' = [thr EXCEPT ![t] = Returned(t, PasswordMethod_unwrap_bytes(password, thr[t].wire))]
    /\ UNCHANGED <<disk, backups, now, db, mutex, app>>

unwrap_keypair(t, private_key) ==
    /\ thr[t].pc \in {"blob", "altered"}
    /\ thr[t].wire.fmt = "keypair"
    /\ thr' = [thr EXCEPT ![t] = Returned(t, PrivateKeyMethod_unwrap_bytes(private_key, thr[t].wire))]
    /\ UNCHANGED <<disk, backups, now, db, mutex, app>>

decrypt_field(t, key_id) ==
    /\ thr[t].pc \in {"blob", "altered"}
    /\ thr[t].wire.fmt = "field"
    /\ thr' = [thr EXCEPT ![t] = Returned(t, decrypt_bytes(key_id, thr[t].wire))]
    /\ UNCHANGED <<disk, backups, now, db, mutex, app>>

FieldSizes == {0, 5}

AllOffsets == 0 .. (FullSize("password", KEY_SIZE) - 1)

AllLengths == 0 .. FullSize("password", KEY_SIZE)

AllHeaderValues == AllLengths \cup {U32_CAP}

WrapStep(t) ==
    \/ \E key_id \in MasterKeyIds, password \in Passwords, salt \in WrapSalts,
          nonce \in Nonces, ascii \in BOOLEAN :
         wrap_password(t, key_id, password, salt, nonce, ascii)
    \/ \E key_id \in MasterKeyIds, private_key \in PrivateKeys,
          eph_secret \in WrapEphemerals, nonce \in Nonces :
         wrap_keypair(t, key_id, private_key, eph_secret, nonce)
    \/ \E key_id \in MasterKeyIds, d \in Dates, size \in FieldSizes, nonce \in Nonces :
         encrypt_field(t, key_id, d, size, nonce)
    \/ \E p \in AllOffsets, mask \in Masks : tamper(t, p, mask)
    \/ \E length \in AllLengths, value \in AllHeaderValues : craft(t, length, value)
    \/ \E password \in Passwords : unwrap_password(t, password)
    \/ \E private_key \in PrivateKeys : unwrap_keypair(t, private_key)
    \/ \E key_id \in MasterKeyIds : decrypt_field(t, key_id)
    \/ Return(t)

InitWrap ==
    /\ disk = create_database(1, MasterKey(1), 1, 1)
    /\ backups = NoBackups
    /\ now = 0
    /\ db = Locked
    /\ mutex = 0
    /\ thr = [t \in Threads |-> Idle]
    /\ app = NoApp

\* one caller wrapping a key or encrypting a field, the blob being altered or
\* cut while stored, and a caller unwrapping or decrypting what is left
NextWrap == WrapStep(1)

SpecWrap == InitWrap /\ [][NextWrap]_vars

\* ═══ Properties of wrap / unwrap (SpecWrap) ════════════════════════════════
\* thread t holds what unwrap_master_key or decrypt returned for its blob
Unwrapped(t) == thr[t].pc = "ret" /\ thr[t].wire.fmt # "none"

\* the credential the blob of thread t was made for
WrapCredential(t) ==
    CASE thr[t].cmd = "PasswordMethod" -> thr[t].pw
      [] thr[t].cmd = "KeypairMethod" -> thr[t].sk
      [] OTHER -> thr[t].key[2]

\* C17: for every master key, password, key pair, salt, nonce and ephemeral
\* key, unwrapping the blob wrap_master_key returned, with the password it
\* was wrapped under or the private key of the public key it was wrapped
\* for, returns the master key.
C17_WrapUnwrapRoundTrip ==
    \A t \in Threads :
      (/\ Unwrapped(t)
       /\ thr[t].cmd \in {"PasswordMethod", "KeypairMethod"}
       /\ Pristine(thr[t].wire)
       /\ thr[t].out.cred = WrapCredential(t)) =>
         /\ thr[t].out.err = "none"
         /\ thr[t].out.key = thr[t].mk

\* master key 2, wrapped for the public key of private key 2 with the second
\* ephemeral key, came back from unwrap_master_key
C17_Witness ==
    \E t \in Threads :
      /\ Unwrapped(t) /\ thr[t].cmd = "KeypairMethod" /\ Pristine(thr[t].wire)
      /\ thr[t].sk = 2 /\ thr[t].out.cred = 2
      /\ thr[t].wire.body.eph = PublicKey(12)
      /\ thr[t].out.key = MasterKey(2)

\* C18: unwrapping a blob with a password other than the one it was wrapped
\* under, or with a private key other than the one of the public key it was
\* wrapped for, returns an error and no key, whether or not the blob was
\* altered; on the blob as it was written the error is the one of a wrong
\* credential.
C18_WrongCredentialRejected ==
    \A t \in Threads :
      (/\ Unwrapped(t)
       /\ thr[t].cmd \in {"PasswordMethod", "KeypairMethod"}
       /\ thr[t].out.cred # WrapCredential(t)) =>
         /\ thr[t].out.err # "none"
         /\ thr[t].out.key = NoKey
         /\ thr[t].res # "ok"
         /\ Pristine(thr[t].wire) =>
              thr[t].out.err = IF thr[t].cmd = "PasswordMethod"
                               THEN "Incorrect password"
                               ELSE "Failed to decrypt master key: wrong private key or corrupted data"

\* a blob wrapped for the public key of private key 1 was refused to
\* private key 2
C18_Witness ==
    \E t \in Threads :
      /\ Unwrapped(t) /\ thr[t].cmd = "KeypairMethod" /\ Pristine(thr[t].wire)
      /\ thr[t].sk = 1 /\ thr[t].out.cred = 2
      /\ thr[t].out.err = "Failed to decrypt master key: wrong private key or corrupted data"

Regions == {"header", "phc", "eph", "nonce", "ciphertext", "tag"}

\* C19: once a single byte of a wrapped blob (password or keypair format) or
\* of an encrypted field was altered, at any position (length header, hash
\* record, ephemeral public key, nonce, ciphertext or tag),
\* unwrap_master_key / decrypt returns an error and no key or plaintext,
\* whatever credential it is given.
C19_TamperDetection ==
    \A t \in Threads :
      (Unwrapped(t) /\ thr[t].wire.hit \in Regions) =>
         /\ thr[t].out.err # "none"
         /\ thr[t].out.key = NoKey
         /\ thr[t].res # "ok"

\* the top bit of the last byte of the ephemeral public key was flipped,
\* which leaves the shared secret as it was, and the matching private key
\* was refused
C19_Witness ==
    \E t \in Threads :
      /\ Unwrapped(t) /\ thr[t].cmd = "KeypairMethod"
      /\ thr[t].wire.hit = "eph" /\ thr[t].wire.pos = EPH_PUB_SIZE - 1 /\ thr[t].wire.mask = 128
      /\ thr[t].out.cred = thr[t].sk
      /\ thr[t].out.err # "none"

FormatErrors ==
    {"Invalid wrapped key: too short",
     "Invalid wrapped key: truncated phc hash",
     "Invalid wrapped key: non-UTF8 phc hash"}

\* the blob is shorter than its format allows: a keypair blob of less than 60
\* bytes, a password blob of less than 4 bytes or with less than the hash
\* record its header declares and a nonce and a tag after the header
TooShort(W) ==
    \/ W.fmt = "keypair" /\ W.len < KEYPAIR_MIN_SIZE
    \/ /\ W.fmt = "password"
       /\ \/ W.len < HEADER_SIZE
          \/ from_le_bytes(W.hdr) = U32_CAP
          \/ W.len - HEADER_SIZE < from_le_bytes(W.hdr) + NONCE_SIZE + TAG_SIZE

\* C20: a keypair blob shorter than 60 bytes, and a password blob shorter
\* than 4 bytes or too short to hold the hash record its header declares
\* plus an AEAD blob, is rejected with a format error before any key
\* derivation, password verification or cipher operation, for every header
\* value.
C20_MinimumLengthRejection ==
    \A t \in Threads :
      (Unwrapped(t) /\ TooShort(thr[t].wire)) =>
         /\ thr[t].out.err \in FormatErrors
         /\ thr[t].out.ops = {}

\* ═══ Secret buffers of the credential and unlock commands (SpecScrub) ═════
\* Each command is one step here, from its entry to its return, on a vault of
\* the current generation: open_database takes open_v3_with_password and
\* migrate_v3_to_v4 finds nothing to do.  `mem` follows the secret buffers of
\* the call.

\* an assignment to buffers; one that went out of scope unscrubbed stays so
Put(mem, upd) ==
    [b \in Buffers |-> IF b \in DOMAIN upd /\ mem[b] # "freed" THEN upd[b] ELSE mem[b]]

\* the function returns: a String, Vec<u8> or [u8; 32] that still holds its
\* secret is released as it is; the session's key lives on in DiaryState
EndOfScope(mem) ==
    [b \in Buffers |-> IF mem[b] = "live" /\ b # "encryption_key" THEN "freed" ELSE mem[b]]

\* PasswordMethod::unwrap_master_key: verify_password zeroizes the clone it
\* was given; wrapping_key_bytes.zeroize() follows the `?` of cipher::decrypt;
\* wrap_key is a cipher::Key (ZeroizeOnDrop); the master key is returned as a
\* Vec<u8>
PasswordMethod_unwrap_buffers(password, wrapped) ==
    IF ~verify_password(password, wrapped.phc)
    THEN "password.clone" :> "zeroed"
    ELSE IF ~decrypt_ok(derive_key_from_phc_hash(wrapped.phc), wrapped.enc)
    THEN ("password.clone" :> "zeroed") @@ ("wrapping_key_bytes" :> "freed") @@ ("wrap_key" :> "zeroed")
    ELSE ("password.clone" :> "zeroed") @@ ("wrapping_key_bytes" :> "zeroed") @@ ("wrap_key" :> "zeroed")
         @@ ("master_key_bytes" :> "live")

\* PasswordMethod::wrap_master_key: hash_password zeroizes the clone it was
\* given, wrapping_key_bytes is zeroized after the encryption
PasswordMethod_wrap_buffers ==
    ("new_password.clone" :> "zeroed") @@ ("wrapping_key_bytes" :> "zeroed") @@ ("wrap_key" :> "zeroed")

\* PrivateKeyMethod::unwrap_master_key: wrapping_key.zeroize() follows the `?`
\* of cipher::decrypt
PrivateKeyMethod_unwrap_buffers(private_key, wrapped) ==
    IF ~PrivateKeyMethod_unwrap_ok(private_key, wrapped)
    THEN ("wrapping_key" :> "freed") @@ ("wrap_key" :> "zeroed")
    ELSE ("wrapping_key" :> "zeroed") @@ ("wrap_key" :> "zeroed") @@ ("master_key_bytes" :> "live")

\* KeypairMethod::wrap_master_key
KeypairMethod_wrap_buffers ==
    ("wrapping_key" :> "zeroed") @@ ("wrap_key" :> "zeroed")

\* the command returns `res`, its locals go out of scope
Done(t, cmd, res, mem) ==
    thr' = [thr EXCEPT ![t] = [Idle EXCEPT !.pc = "ret", !.cmd = cmd, !.res = res,
                                           !.mem = EndOfScope(mem)]]

\* commands/auth/auth_methods.rs: verify_password
call_verify_password(t, password) ==
    /\ thr[t].pc = "idle"
    /\ mutex_free(mutex)
    /\ LET args == Put(NoMem, "password" :> "live")
       IN  IF ~db.open THEN Done(t, "verify_password", "Diary must be unlocked", args)
           ELSE IF ~HasPasswordSlot(disk)
           THEN Done(t, "verify_password", "No password auth method found", args)
           ELSE LET wrapped == get_password_slot(disk).wrapped
                    mem == Put(args, PasswordMethod_unwrap_buffers(password, wrapped))
                IN  IF ~PasswordMethod_unwrap_ok(password, wrapped)
                    THEN Done(t, "verify_password", "Incorrect password", mem)
                    ELSE Done(t, "verify_password", "ok", mem)
    /\ UNCHANGED <<disk, backups, now, db, mutex, app>>

\* commands/auth/auth_core.rs: change_password
call_change_password(t, old_password, new_password) ==
    /\ thr[t].pc = "idle"
    /\ mutex_free(mutex)
    /\ UNCHANGED <<backups, now, db, mutex, app>>
    /\ LET args == Put(NoMem, ("password" :> "live") @@ ("new_password" :> "live"))
       IN  IF ~db.open
           THEN Done(t, "change_password", "Diary must be unlocked to change password", args)
                /\ UNCHANGED disk
           ELSE IF ~HasPasswordSlot(disk)
           THEN Done(t, "change_password", "No password auth method found", args)
                /\ UNCHANGED disk
           ELSE LET s == get_password_slot(disk)
                    mem == Put(args, PasswordMethod_unwrap_buffers(old_password, s.wrapped))
                IN  IF ~PasswordMethod_unwrap_ok(old_password, s.wrapped)
                    THEN Done(t, "change_password", "Incorrect current password", mem)
                         /\ UNCHANGED disk
                    ELSE /\ \E salt \in Salts, n \in Nonces :
                              disk' = update_auth_slot_wrapped_key(disk, s.id,
                                          PasswordMethod_wrap_master_key(new_password,
                                              PasswordMethod_unwrap_master_key(old_password, s.wrapped),
                                              salt, n))
                         /\ Done(t, "change_password", "ok", Put(mem, PasswordMethod_wrap_buffers))

\* commands/auth/auth_methods.rs: register_keypair; public key 0 is malformed hex
call_register_keypair(t, current_password, public_key) ==
    /\ thr[t].pc = "idle"
    /\ mutex_free(mutex)
    /\ disk.seq < MaxSlotId
    /\ UNCHANGED <<backups, now, db, mutex, app>>
    /\ LET args == Put(NoMem, "password" :> "live")
       IN  IF ~db.open
           THEN Done(t, "register_keypair", "Diary must be unlocked", args) /\ UNCHANGED disk
           ELSE IF ~HasPasswordSlot(disk)
           THEN Done(t, "register_keypair", "No password auth method found", args) /\ UNCHANGED disk
           ELSE LET wrapped == get_password_slot(disk).wrapped
                    mem == Put(args, PasswordMethod_unwrap_buffers(current_password, wrapped))
                IN  IF ~PasswordMethod_unwrap_ok(current_password, wrapped)
                    THEN Done(t, "register_keypair", "Incorrect password", mem) /\ UNCHANGED disk
                    ELSE IF public_key = 0
                    THEN Done(t, "register_keypair", "Invalid public key", mem) /\ UNCHANGED disk
                    ELSE IF KeypairSlots(disk, public_key) # {}
                    THEN Done(t, "register_keypair",
                              "A keypair with this public key is already registered", mem)
                         /\ UNCHANGED disk
                    ELSE /\ \E e \in EphemeralSecrets, n \in Nonces :
                              disk' = insert_auth_slot(disk, "keypair", public_key,
                                          KeypairMethod_wrap_master_key(public_key,
                                              PasswordMethod_unwrap_master_key(current_password, wrapped),
                                              e, n))
                         /\ Done(t, "register_keypair", "ok", Put(mem, KeypairMethod_wrap_buffers))

\* commands/auth/auth_methods.rs: remove_auth_method
call_remove_auth_method(t, slot_id, current_password) ==
    /\ thr[t].pc = "idle"
    /\ mutex_free(mutex)
    /\ UNCHANGED <<backups, now, db, mutex, app>>
    /\ LET args == Put(NoMem, "password" :> "live")
       IN  IF ~db.open
           THEN Done(t, "remove_auth_method", "Diary must be unlocked", args) /\ UNCHANGED disk
           ELSE IF ~HasPasswordSlot(disk)
           THEN Done(t, "remove_auth_method", "No password auth method found", args) /\ UNCHANGED disk
           ELSE LET wrapped == get_password_slot(disk).wrapped
                    mem == Put(args, PasswordMethod_unwrap_buffers(current_password, wrapped))
                IN  IF ~PasswordMethod_unwrap_ok(current_password, wrapped)
                    THEN Done(t, "remove_auth_method", "Incorrect password", mem) /\ UNCHANGED disk
                    ELSE IF is_last_slot(count_auth_slots(disk))
                    THEN Done(t, "remove_auth_method",
                              "Cannot remove the last authentication method", mem)
                         /\ UNCHANGED disk
                    ELSE /\ disk' = delete_auth_slot(disk, slot_id)
                         /\ Done(t, "remove_auth_method", "ok", mem)

\* commands/auth/auth_core.rs: unlock_diary, with open_database and
\* open_v3_with_password, which zeroizes master_key_bytes once the session's
\* cipher::Key holds a copy
call_unlock_diary(t, password) ==
    /\ thr[t].pc = "idle"
    /\ current_version(disk) = SCHEMA_VERSION
    /\ UNCHANGED <<now, mutex, app>>
    /\ LET args == Put(NoMem, "password" :> "live")
       IN  IF ~HasPasswordSlot(disk)
           THEN Done(t, "unlock_diary", "No password auth slot found", args)
                /\ UNCHANGED <<disk, backups, db>>
           ELSE LET s == get_password_slot(disk)
                    mem == Put(args, PasswordMethod_unwrap_buffers(password, s.wrapped))
                IN  IF ~PasswordMethod_unwrap_ok(password, s.wrapped)
                    THEN Done(t, "unlock_diary", "Incorrect password", mem)
                         /\ UNCHANGED <<disk, backups, db>>
                    ELSE /\ disk' = touch_last_used(disk, s.id, now)
                         /\ db' = [open |-> TRUE,
                                   key |-> PasswordMethod_unwrap_master_key(password, s.wrapped)]
                         /\ \/ backups' = backup_and_rotate(backups, now, disk')
                            \/ UNCHANGED backups
                         /\ Done(t, "unlock_diary", "ok",
                                 Put(mem, ("master_key_bytes" :> "zeroed") @@ ("encryption_key" :> "live")))

\* commands/auth/auth_core.rs: unlock_diary_with_keypair, with
\* open_database_with_keypair; key file 0 holds the hex of 31 bytes
call_unlock_diary_with_keypair(t, key_file) ==
    /\ thr[t].pc = "idle"
    /\ current_version(disk) = SCHEMA_VERSION
    /\ UNCHANGED <<now, mutex, app>>
    /\ LET args == Put(NoMem, ("key_hex" :> "live") @@ ("key_bytes_vec" :> "live"))
           copied == Put(args, ("key_bytes_vec" :> "zeroed") @@ ("private_key" :> "live"))
           matching == KeypairSlots(disk, PublicKey(key_file))
       IN  IF key_file = 0
           THEN Done(t, "unlock_diary_with_keypair", "Invalid key file: expected 32-byte private key", args)
                /\ UNCHANGED <<disk, backups, db>>
           ELSE IF matching = {}
           THEN Done(t, "unlock_diary_with_keypair", "No keypair auth method found", copied)
                /\ UNCHANGED <<disk, backups, db>>
           ELSE \E s \in matching :
                  LET mem == Put(Put(copied, "unwrap_method.private_key" :> "live"),
                                 PrivateKeyMethod_unwrap_buffers(key_file, s.wrapped))
                  IN  IF ~PrivateKeyMethod_unwrap_ok(key_file, s.wrapped)
                      THEN Done(t, "unlock_diary_with_keypair", "Failed to unlock with key file", mem)
                           /\ UNCHANGED <<disk, backups, db>>
                      ELSE /\ disk' = touch_last_used(disk, s.id, now)
                           /\ db' = [open |-> TRUE,
                                     key |-> PrivateKeyMethod_unwrap_master_key(key_file, s.wrapped)]
                           /\ \/ backups' = backup_and_rotate(backups, now, disk')
                              \/ UNCHANGED backups
                           /\ Done(t, "unlock_diary_with_keypair", "ok",
                                   Put(mem, ("master_key_bytes" :> "zeroed") @@ ("encryption_key" :> "live")
                                            @@ ("private_key" :> "zeroed")))

\* a current vault whose password blob was damaged on disk: the hash record
\* verifies password 1, the bytes after it are not what its key encrypted
SplicedVaults ==
    LET base == create_database(1, MasterKey(1), 1, 1)
        blob == [PasswordMethod_wrap_master_key(1, MasterKey(1), 1, 1) EXCEPT !.enc.k = NoKey]
    IN  {[base EXCEPT !.slots = {Slot(1, "password", 0, blob)},
                      !.entries = EntriesUnder(MasterKey(1), Dates, {})]}

InitScrub ==
    /\ disk \in {d \in CurrentVaults : d.version = SCHEMA_VERSION /\ ~d.fts /\ DOMAIN d.entries = Dates}
                \cup DamagedVaults \cup SplicedVaults
    /\ db \in {Locked, [open |-> TRUE, key |-> MasterKey(1)]}
    /\ backups = NoBackups
    /\ now = 0
    /\ mutex = 0
    /\ thr = [t \in Threads |-> Idle]
    /\ app = NoApp

\* one frontend thread issuing the commands that handle a credential
NextScrub ==
    \/ \E password \in Passwords : call_verify_password(1, password)
    \/ \E old_password \in Passwords, new_password \in Passwords :
         call_change_password(1, old_password, new_password)
    \/ \E current_password \in Passwords, private_key \in PrivateKeys \cup {-1000} :
         call_register_keypair(1, current_password, PublicKey(private_key))
    \/ \E slot_id \in 1..MaxSlotId, current_password \in Passwords :
         call_remove_auth_method(1, slot_id, current_password)
    \/ \E password \in Passwords : call_unlock_diary(1, password)
    \/ \E key_file \in PrivateKeys \cup {0} : call_unlock_diary_with_keypair(1, key_file)
    \/ Return(1)
    \/ lock_diary(1)

SpecScrub == InitScrub /\ [][NextScrub]_vars

ScrubbingCommands ==
    {"verify_password", "change_password", "register_keypair", "remove_auth_method",
     "unlock_diary", "unlock_diary_with_keypair"}

\* C21: when verify_password, change_password, register_keypair,
\* remove_auth_method, unlock_diary or unlock_diary_with_keypair has returned,
\* with Ok or with any error, every buffer that held the password, the
\* private key, a wrapping key or the unwrapped master key has been
\* overwritten with zeros; the only live copy of the master key is the key of
\* the session.
C21_SecretScrubbing ==
    \A t \in Threads :
      (thr[t].pc = "ret" /\ thr[t].cmd \in ScrubbingCommands) =>
        \A b \in Buffers :
          \/ thr[t].mem[b] \in {"none", "zeroed"}
          \/ b = "encryption_key" /\ thr[t].mem[b] = "live" /\ db.open

\* ═══ The 2 -> 3 transform, record by record (Spec) ═════════════════════════
\* the transaction of migrate_v2_to_v3_inner is open
InTransformV2V3(t) == thr[t].pc \in {"m23_entries", "m23_bump", "m23_commit", "m23_rollback"}

\* C23: at every point of the 2 -> 3 transform every record of the vault
\* exists in the working image; a record not yet processed is the ciphertext
\* the vault held before, a processed one decrypts under the new master key
\* to the plaintext it had under the pre-migration key; and a statement of
\* the loop changes a record only by putting its re-encryption in its place.
C23_ReadOldWriteNew ==
    /\ [](\A t \in Threads :
            InTransformV2V3(t) =>
              /\ DOMAIN thr[t].tx.entries = DOMAIN thr[t].t0.entries
              /\ \A d \in DOMAIN thr[t].t0.entries :
                   IF d \in thr[t].todo
                   THEN thr[t].tx.entries[d] = thr[t].t0.entries[d]
                   ELSE SamePlaintext(thr[t].key, thr[t].t0, thr[t].mk, thr[t].tx, d))
    /\ [][\A t \in Threads :
            (InTransformV2V3(t) /\ InTransformV2V3(t)') =>
              \A d \in DOMAIN thr[t].tx.entries :
                thr'[t].tx.entries[d] # thr[t].tx.entries[d] =>
                  /\ Readable(thr[t].key, thr[t].tx, d)
                  /\ SamePlaintext(thr[t].key, thr[t].tx, thr[t].mk, thr'[t].tx, d)]_vars

\* the loop has replaced the first record and not yet the second
C23_Witness ==
    \E t \in Threads :
      /\ thr[t].pc = "m23_entries"
      /\ thr[t].nre >= 1 /\ thr[t].todo # {}
      /\ \E d \in DOMAIN thr[t].tx.entries \ thr[t].todo :
           /\ thr[t].tx.entries[d] # thr[t].t0.entries[d]
           /\ Readable(thr[t].mk, thr[t].tx, d)

\* ═══ Connections to the vault file (Spec) ══════════════════════════════════
\* the thread is inside open_database or open_database_with_keypair, past
\* Connection::open, and its connection is not yet stored in DiaryState.db
\* nor dropped by an error return
UnlockInProgress(t) ==
    /\ thr[t].cmd \in {"unlock_diary", "unlock_diary_with_keypair"}
    /\ thr[t].pc \notin {"idle", "post_backup", "ret"}

\* the connection of the session and those of the unlocks in progress
OpenConnections ==
    Cardinality({t \in Threads : UnlockInProgress(t)}) + (IF db.open THEN 1 ELSE 0)

\* C22: the process never has more than one open connection to the vault
\* file: no unlock (authentication and migration) is in progress while a
\* session on the file is live or while another unlock is in progress.
C22_OneConnectionAtATime == OpenConnections <= 1

\* ═══ Re-running an interrupted 3 -> 4 step (Spec) ══════════════════════════
\* the vault the open found is one an interrupted 3 -> 4 step leaves behind:
\* the search table is gone and the generation is still 3
InterruptedV3V4(image) == image.version = 3 /\ ~image.fts

\* C24: on a vault whose plaintext search table a previous run of the 3 -> 4
\* step has dropped without the generation becoming 4, the next open, by
\* password or by key file, runs the step again and ends, unless the
\* credential is refused or an I/O failure is injected, with generation 4 and
\* no search table.
C24_InterruptedStepReruns ==
    \A t \in Threads :
      (InOpenDatabase(t) /\ InterruptedV3V4(thr[t].d0)) =>
        /\ thr[t].pc = "opened" =>
             /\ disk.version = SCHEMA_VERSION
             /\ ~disk.fts
             /\ thr[t].steps >= 1
        /\ thr[t].pc = "ret" => (thr[t].inj \/ thr[t].res \in AuthFailures)

\* a key-file open has re-run the step on such a vault
C24_Witness ==
    \E t \in Threads :
      /\ thr[t].cmd = "unlock_diary_with_keypair" /\ thr[t].pc = "opened"
      /\ InterruptedV3V4(thr[t].d0)
      /\ disk.version = SCHEMA_VERSION /\ ~disk.fts

\* ═══ The password slot (SpecAuth) ══════════════════════════════════════════
\* C27: the vault holds at most one password-type slot, whatever sequence of
\* register_password, register_keypair, change_password and
\* remove_auth_method has run on the vault create_database wrote, since
\* register_password fails when a password slot exists.
C27_AtMostOnePasswordSlot ==
    /\ Cardinality(PasswordSlots(disk)) <= 1
    /\ \A t \in Threads :
         (thr[t].pc = "write" /\ thr[t].cmd = "register_password") => ~HasPasswordSlot(disk)

\* the password slot was removed and registered anew, and a further
\* register_password has been refused
C27_Witness ==
    /\ \E s \in PasswordSlots(disk) : s.id > 1
    /\ \E t \in Threads :
         /\ thr[t].pc = "ret" /\ thr[t].cmd = "register_password"
         /\ thr[t].res = "A password method already exists"

\* ═══ Entry queries on the vault create_database wrote (SpecEntries) ═══════
\* db/queries.rs on the open session of a vault whose tables are those of
\* create_schema: `entries` with `date TEXT PRIMARY KEY`, no entries_fts.

\* plaintext titles a caller passes ("Morning", "Afternoon", "Evening")
EntryTitles == {101, 102, 103}
\* plaintext text a caller passes ("Content")
EntryText == 100

\* update_fts_index: counts the entries_fts rows of the date, then updates or
\* inserts one; the SELECT fails when the table does not exist
update_fts_index(image) ==
    IF image.fts THEN "ok" ELSE "Failed to check FTS existence"

\* INSERT INTO entries: the PRIMARY KEY on date rejects a second row
insert_row(image, date, row) ==
    IF date \in DOMAIN image.entries
    THEN [err |-> TRUE, image |-> image]
    ELSE [err |-> FALSE,
          image |-> [image EXCEPT !.entries =
                        [d \in DOMAIN image.entries \cup {date} |->
                            IF d = date THEN row ELSE image.entries[d]]]]

\* queries::insert_entry; each statement autocommits
insert_entry(t, date, title, n1, n2) ==
    /\ thr[t].pc = "idle"
    /\ mutex = 0
    /\ db.open
    /\ LET row == [title |-> encrypt(db.key, title, n1), text |-> encrypt(db.key, EntryText, n2)]
           ins == insert_row(disk, date, row)
           res == IF ins.err THEN "Failed to insert entry" ELSE update_fts_index(ins.image)
       IN  /\ disk' = ins.image
           /\ thr' = [thr EXCEPT ![t] = [Idle EXCEPT !.pc = "ret", !.cmd = "insert_entry",
                                                     !.res = res, !.date = date, !.title = title,
                                                     !.d0 = disk]]
    /\ UNCHANGED <<backups, now, db, mutex, app>>

\* queries::update_entry
update_entry(t, date, title, n1, n2) ==
    /\ thr[t].pc = "idle"
    /\ mutex = 0
    /\ db.open
    /\ LET row == [title |-> encrypt(db.key, title, n1), text |-> encrypt(db.key, EntryText, n2)]
           found == date \in DOMAIN disk.entries
           image == IF found THEN [disk EXCEPT !.entries[date] = row] ELSE disk
           res == IF found THEN update_fts_index(image) ELSE "No entry found for date"
       IN  /\ disk' = image
           /\ thr' = [thr EXCEPT ![t] = [Idle EXCEPT !.pc = "ret", !.cmd = "update_entry",
                                                     !.res = res, !.date = date, !.title = title,
                                                     !.d0 = disk]]
    /\ UNCHANGED <<backups, now, db, mutex, app>>

\* queries::delete_entry: Ok(false) when no row had the date; otherwise the
\* row is deleted and then DELETE FROM entries_fts runs
delete_entry(t, date) ==
    /\ thr[t].pc = "idle"
    /\ mutex = 0
    /\ db.open
    /\ LET found == date \in DOMAIN disk.entries
           image == IF found
                    THEN [disk EXCEPT !.entries = [d \in DOMAIN disk.entries \ {date} |-> disk.entries[d]]]
                    ELSE disk
           res == IF ~found THEN "ok"
                  ELSE IF image.fts THEN "ok" ELSE "Failed to delete from FTS"
       IN  /\ disk' = image
           /\ thr' = [thr EXCEPT ![t] = [Idle EXCEPT !.pc = "ret", !.cmd = "delete_entry",
                                                     !.res = res, !.date = date, !.d0 = disk]]
    /\ UNCHANGED <<backups, now, db, mutex, app>>

\* queries::get_entry: None when no row has the date
get_entry(t, date) ==
    /\ thr[t].pc = "idle"
    /\ mutex = 0
    /\ db.open
    /\ LET found == date \in DOMAIN disk.entries
           res == IF ~found THEN "ok"
                  ELSE IF ~decrypt_ok(db.key, disk.entries[date].title) THEN "Failed to decrypt title"
                  ELSE IF ~decrypt_ok(db.key, disk.entries[date].text) THEN "Failed to decrypt text"
                  ELSE "ok"
           rows == IF found /\ res = "ok"
                   THEN {[title |-> decrypt(db.key, disk.entries[date].title),
                          text |-> decrypt(db.key, disk.entries[date].text)]}
                   ELSE {}
       IN  thr' = [thr EXCEPT ![t] = [Idle EXCEPT !.pc = "ret", !.cmd = "get_entry",
                                                  !.res = res, !.date = date, !.rows = rows,
                                                  !.d0 = disk]]
    /\ UNCHANGED <<disk, backups, now, db, mutex, app>>

\* the vault create_database wrote (optionally with a key-file slot added),
\* opened by its password
InitEntries ==
    /\ disk \in {b \in CurrentVaults : b.version = SCHEMA_VERSION /\ ~b.fts /\ DOMAIN b.entries = {}}
    /\ backups = NoBackups
    /\ now = 1
    /\ db = [open |-> TRUE, key |-> MasterKey(1)]
    /\ mutex = 0
    /\ thr = [t \in Threads |-> Idle]
    /\ app = NoApp

NextEntries ==
    \/ \E date \in Dates, title \in EntryTitles, n1 \in Nonces, n2 \in Nonces :
          insert_entry(1, date, title, n1, n2)
    \/ \E date \in Dates, title \in EntryTitles, n1 \in Nonces, n2 \in Nonces :
          update_entry(1, date, title, n1, n2)
    \/ \E date \in Dates : delete_entry(1, date)
    \/ \E date \in Dates : get_entry(1, date)
    \/ Return(1)

SpecEntries == InitEntries /\ [][NextEntries]_vars

\* C28: in the vault create_database wrote, an insert_entry for a date that
\* already has a record succeeds, and the record it was given is stored
\* beside the one the date had, each under its own plaintext.
C28_MultipleEntriesPerDay ==
    \A t \in Threads :
        (/\ thr[t].pc = "ret" /\ thr[t].cmd = "insert_entry"
         /\ thr[t].date \in DOMAIN thr[t].d0.entries)
        => /\ thr[t].res = "ok"
           /\ disk.entries # thr[t].d0.entries

\* ═══ Journals and the storage location (SpecJournal) ══════════════════════
\* commands/auth: lock_diary, unlock_diary, unlock_diary_with_keypair,
\* switch_journal, remove_journal and change_diary_directory on one
\* DiaryState, called from two threads.  Directory d holds at most one
\* diary.db (app.files[d]) and one backups folder (app.backup[d]); journal j
\* is configured with path j.  db_path and backups_dir name a directory;
\* app.conn is the directory of the file the open connection is on.

\* ids a caller passes: the two configured journals and one that is unknown
JournalIds == {1, 2, 3}

\* JournalConfig.path of journal `id`
JournalPath(id) == id

IsJournal(journals, id) == \E i \in DOMAIN journals : journals[i] = id

\* Vec::remove(position of id)
WithoutJournal(journals, id) == SelectSeq(journals, LAMBDA j : j # id)

lock_diary_inner_keeps(session) == [did_lock |-> session.open, db |-> session]

\* commands/auth/mod.rs: lock_diary_inner, under the db mutex
lock_diary_inner(session) == [did_lock |-> session.open, db |-> Locked]

\* config.rs
save_diary_dir(a, dir) == [a EXCEPT !.diary_dir = dir]

save_journals(a, journals, active_id) ==
    [a EXCEPT !.journals = journals, !.active = active_id,
              !.diary_dir = IF IsJournal(journals, active_id) THEN JournalPath(active_id) ELSE @]

save_active_journal_id(a, id) ==
    [a EXCEPT !.active = id,
              !.diary_dir = IF IsJournal(a.journals, id) THEN JournalPath(id) ELSE @]

\* the session is dropped: the connection is closed
Closed(a) == [a EXCEPT !.conn = 0]

\* the command returns: its locals are dropped
Ret(t, res) == [Idle EXCEPT !.pc = "ret", !.cmd = thr[t].cmd, !.res = res]

\* lock_diary
call_lock_diary(t) ==
    /\ thr[t].pc = "idle"
    /\ mutex = 0
    /\ LET r == lock_diary_inner(db)
       IN  /\ db' = r.db
           /\ app' = IF r.db.open THEN app ELSE Closed(app)
           /\ thr' = [thr EXCEPT ![t] = [Idle EXCEPT !.pc = "ret", !.cmd = "lock_diary",
                                                     !.did_lock = r.did_lock,
                                                     !.res = IF r.did_lock THEN "ok"
                                                             ELSE "Diary is not unlocked"]]
    /\ UNCHANGED <<disk, backups, now, mutex>>

\* unlock_diary / unlock_diary_with_keypair: `db_path.lock()...clone()`
unlock_clone_db_path(t, cmd, password, key_file) ==
    /\ thr[t].pc = "idle"
    /\ thr' = [thr EXCEPT ![t] = [Idle EXCEPT !.pc = "db_path", !.cmd = cmd,
                                              !.pw = password, !.sk = key_file,
                                              !.path = app.db_path]]
    /\ UNCHANGED <<disk, backups, now, db, mutex, app>>

\* `backups_dir.lock()...clone()`
unlock_clone_backups_dir(t) ==
    /\ thr[t].pc = "db_path"
    /\ thr' = [thr EXCEPT ![t].pc = "backups_dir", ![t].bdir = app.backups_dir]
    /\ UNCHANGED <<disk, backups, now, db, mutex, app>>

\* db/schema.rs: open_database / open_database_with_keypair on a vault of the
\* current generation, no step to run
open_current(image, cmd, password, key_file, stamp) ==
    IF cmd = "unlock_diary"
    THEN IF ~HasPasswordSlot(image)
         THEN [res |-> "No password auth slot found", key |-> NoKey, image |-> image]
         ELSE LET s == get_password_slot(image)
              IN  IF ~PasswordMethod_unwrap_ok(password, s.wrapped)
                  THEN [res |-> "Incorrect password", key |-> NoKey, image |-> image]
                  ELSE [res |-> "ok", key |-> PasswordMethod_unwrap_master_key(password, s.wrapped),
                        image |-> touch_last_used(image, s.id, stamp)]
    ELSE LET matching == KeypairSlots(image, PublicKey(key_file))
         IN  IF matching = {}
             THEN [res |-> "No keypair auth method found", key |-> NoKey, image |-> image]
             ELSE LET s == CHOOSE x \in matching : \A y \in matching : x.id <= y.id
                  IN  IF ~PrivateKeyMethod_unwrap_ok(key_file, s.wrapped)
                      THEN [res |-> "Failed to unlock with key file", key |-> NoKey, image |-> image]
                      ELSE [res |-> "ok", key |-> PrivateKeyMethod_unwrap_master_key(key_file, s.wrapped),
                            image |-> touch_last_used(image, s.id, stamp)]

\* `!db_path.exists()`, then open_database(db_path, ..) on the cloned path
unlock_open(t) ==
    /\ thr[t].pc = "backups_dir"
    /\ LET image == app.files[thr[t].path]
           r == open_current(image, thr[t].cmd, thr[t].pw, thr[t].sk, now)
       IN  IF image = NoImage
           THEN /\ thr' = [thr EXCEPT ![t] = Ret(t, "No diary found. Please create one first.")]
                /\ app' = app
           ELSE /\ app' = [app EXCEPT !.files[thr[t].path] = r.image]
                /\ thr' = [thr EXCEPT ![t] = IF r.res = "ok"
                                             THEN [thr[t] EXCEPT !.pc = "opened", !.key = r.key]
                                             ELSE Ret(t, r.res)]
    /\ UNCHANGED <<disk, backups, now, db, mutex>>

\* `state.db.lock()`, `*db_state = Some(db_conn)`; the guard lives to the
\* end of the command
unlock_store(t) ==
    /\ thr[t].pc = "opened"
    /\ mutex = 0
    /\ mutex' = t
    /\ db' = [open |-> TRUE, key |-> thr[t].key]
    /\ app' = [app EXCEPT !.conn = thr[t].path]
    /\ thr' = [thr EXCEPT ![t].pc = "stored"]
    /\ UNCHANGED <<disk, backups, now>>

\* backup_and_rotate(&db_path, &backups_dir): a failure is only logged
unlock_backup(t) ==
    /\ thr[t].pc = "stored"
    /\ app' = IF app.files[thr[t].path] = NoImage THEN app
              ELSE [app EXCEPT !.backup[thr[t].bdir] = app.files[thr[t].path]]
    /\ thr' = [thr EXCEPT ![t] = Ret(t, "ok")]
    /\ mutex' = 0
    /\ UNCHANGED <<disk, backups, now, db>>

\* auto_lock_diary_if_unlocked as the first statement of command `cmd`;
\* `wanted` is false when the command skips it
auto_lock_diary_if_unlocked(t, cmd, id, wanted) ==
    LET r == IF wanted THEN lock_diary_inner(db) ELSE [did_lock |-> FALSE, db |-> db]
    IN  /\ wanted => mutex = 0
        /\ db' = r.db
        /\ app' = IF r.db.open THEN app ELSE Closed(app)
        /\ thr' = [thr EXCEPT ![t] = [Idle EXCEPT !.pc = "inner", !.cmd = cmd, !.id = id,
                                                  !.did_lock = r.did_lock]]
        /\ UNCHANGED <<disk, backups, now, mutex>>

\* switch_journal: auto-lock, then switch_journal_inner
switch_journal(t, id) ==
    /\ thr[t].pc = "idle"
    /\ auto_lock_diary_if_unlocked(t, "switch_journal", id, TRUE)

switch_journal_inner(t) ==
    /\ thr[t].pc = "inner" /\ thr[t].cmd = "switch_journal"
    /\ IF ~IsJournal(app.journals, thr[t].id)
       THEN /\ thr' = [thr EXCEPT ![t] = Ret(t, "Journal not found")]
            /\ app' = app
       ELSE /\ app' = save_active_journal_id(
                         [app EXCEPT !.db_path = JournalPath(thr[t].id),
                                     !.backups_dir = JournalPath(thr[t].id)], thr[t].id)
            /\ thr' = [thr EXCEPT ![t] = Ret(t, "ok")]
    /\ UNCHANGED <<disk, backups, now, db, mutex>>

\* remove_journal: auto-lock when the id is the active one, then
\* remove_journal_inner
remove_journal(t, id) ==
    /\ thr[t].pc = "idle"
    /\ auto_lock_diary_if_unlocked(t, "remove_journal", id, app.active = id)

remove_journal_inner(t) ==
    /\ thr[t].pc = "inner" /\ thr[t].cmd = "remove_journal"
    /\ LET id == thr[t].id
           journals == WithoutJournal(app.journals, id)
           removing_active == app.active = id
       IN  IF ~IsJournal(app.journals, id)
           THEN /\ thr' = [thr EXCEPT ![t] = Ret(t, "Journal not found")]
                /\ app' = app
           ELSE /\ app' = IF removing_active
                          THEN IF journals # <<>>
                               THEN save_journals(
                                       [app EXCEPT !.db_path = JournalPath(Head(journals)),
                                                   !.backups_dir = JournalPath(Head(journals))],
                                       journals, Head(journals))
                               ELSE save_journals(app, journals, 0)
                          ELSE save_journals(app, journals, app.active)
                /\ thr' = [thr EXCEPT ![t] = Ret(t, "ok")]
    /\ UNCHANGED <<disk, backups, now, db, mutex>>

\* change_diary_directory: auto-lock, then change_diary_directory_inner on the
\* current db_path; new_dir 0 is not a directory
change_diary_directory(t, new_dir) ==
    /\ thr[t].pc = "idle"
    /\ auto_lock_diary_if_unlocked(t, "change_diary_directory", new_dir, TRUE)

change_diary_directory_inner(t) ==
    /\ thr[t].pc = "inner" /\ thr[t].cmd = "change_diary_directory"
    /\ LET new_dir == thr[t].id
           cur == app.db_path
           moved == IF app.files[cur] # NoImage
                    THEN [app EXCEPT !.files[new_dir] = app.files[cur], !.files[cur] = NoImage]
                    ELSE app
       IN  IF new_dir = 0
           THEN /\ thr' = [thr EXCEPT ![t] = Ret(t, "Selected directory does not exist")]
                /\ app' = app
           ELSE IF new_dir = cur
           THEN /\ thr' = [thr EXCEPT ![t] = Ret(t, "ok")]
                /\ app' = app
           ELSE IF app.files[cur] # NoImage /\ app.files[new_dir] # NoImage
           THEN /\ thr' = [thr EXCEPT ![t] = Ret(t, "A diary file already exists at the chosen location")]
                /\ app' = app
           ELSE /\ app' = [save_diary_dir(moved, new_dir) EXCEPT !.db_path = new_dir,
                                                                 !.backups_dir = new_dir]
                /\ thr' = [thr EXCEPT ![t] = Ret(t, "ok")]
    /\ UNCHANGED <<disk, backups, now, db, mutex>>

\* lib.rs: the active journal's directory at start-up; the first journal's
\* vault has a password and a key-file slot, the second, when it exists, a
\* password slot under another password
InitJournal ==
    /\ disk = NoImage
    /\ backups = NoBackups
    /\ now = 1
    /\ db = Locked
    /\ mutex = 0
    /\ thr = [t \in Threads |-> Idle]
    /\ \E journals \in {<<1, 2>>, <<1>>},
          second \in {NoImage, create_database(2, MasterKey(2), 1, 1)} :
          app = [db_path |-> JournalPath(1), backups_dir |-> JournalPath(1), conn |-> 0,
                 journals |-> journals, active |-> 1, diary_dir |-> JournalPath(1),
                 files |-> [d \in Dirs |->
                              IF d = 1
                              THEN WithKeypair(create_database(1, MasterKey(1), 1, 1), 1, MasterKey(1))
                              ELSE second],
                 backup |-> [d \in Dirs |-> NoImage]]

\* thread 1 issues the session commands, thread 2 the journal and directory
\* commands; lock_diary comes from either
NextJournal ==
    \/ \E t \in Threads : call_lock_diary(t)
    \/ \E password \in Passwords : unlock_clone_db_path(1, "unlock_diary", password, 0)
    \/ \E key_file \in PrivateKeys : unlock_clone_db_path(1, "unlock_diary_with_keypair", 0, key_file)
    \/ unlock_clone_backups_dir(1)
    \/ unlock_open(1)
    \/ unlock_store(1)
    \/ unlock_backup(1)
    \/ \E id \in JournalIds : switch_journal(2, id)
    \/ switch_journal_inner(2)
    \/ \E id \in JournalIds : remove_journal(2, id)
    \/ remove_journal_inner(2)
    \/ \E new_dir \in Dirs \cup {0} : change_diary_directory(2, new_dir)
    \/ change_diary_directory_inner(2)
    \/ \E t \in Threads : Return(t)

SpecJournal == InitJournal /\ [][NextJournal]_vars

\* C25: a lock_diary call makes lock_diary_inner return true exactly when the
\* session was unlocked and false exactly when it was already locked, leaves
\* the session locked (no connection, no key) in both cases, and reports
\* "Diary is not unlocked" exactly in the already-locked case.
C25_LockStateMachine ==
    [][\A t \in Threads :
          (thr[t].pc = "idle" /\ thr'[t].pc = "ret" /\ thr'[t].cmd = "lock_diary")
          => /\ thr'[t].did_lock = db.open
             /\ db' = Locked
             /\ app'.conn = 0
             /\ (thr'[t].res = "ok") = db.open
             /\ (thr'[t].res = "Diary is not unlocked") = ~db.open]_vars

\* one lock_diary has locked an unlocked session and returned Ok, and a
\* second, on the session it left locked, has returned the error
C25_Witness ==
    /\ thr[1].pc = "ret" /\ thr[1].cmd = "lock_diary" /\ thr[1].res = "ok" /\ thr[1].did_lock
    /\ thr[2].pc = "ret" /\ thr[2].cmd = "lock_diary" /\ thr[2].res = "Diary is not unlocked"
    /\ ~thr[2].did_lock
    /\ db = Locked /\ app.conn = 0

\* C26: change_diary_directory called with an unlocked session returns the
\* error that the diary must be locked before changing its storage location,
\* and changes neither the session, the diary files, the stored paths nor the
\* config.
C26_DirectoryChangeBlockedWhenUnlocked ==
    [][\A t \in Threads :
          (/\ thr[t].pc = "idle" /\ thr'[t].pc # "idle"
           /\ thr'[t].cmd = "change_diary_directory"
           /\ db.open)
          => /\ thr'[t].pc = "ret"
             /\ thr'[t].res = "Diary must be locked before changing its storage location."
             /\ db' = db
             /\ app' = app]_vars

\* C29: whenever the session is unlocked, its connection is to the file that
\* db_path names, for every interleaving of the two unlock commands with
\* switch_journal, remove_journal and change_diary_directory.
C29_SessionPathConsistency == db.open => app.conn = app.db_path

\* C30: a switch_journal whose id names no configured journal returns
\* "Journal not found" and leaves the lock state of the session, db_path,
\* backups_dir and the persisted active journal id as they were.
C30_FailedSwitchChangesNothing ==
    [][\A t \in Threads :
          (/\ thr'[t] # thr[t]
           /\ thr'[t].cmd = "switch_journal"
           /\ ~IsJournal(app.journals, IF thr[t].pc = "idle" THEN thr'[t].id ELSE thr[t].id))
          => /\ thr'[t].pc = "ret" => thr'[t].res = "Journal not found"
             /\ db' = db
             /\ app'.db_path = app.db_path
             /\ app'.backups_dir = app.backups_dir
             /\ app'.active = app.active]_vars

====
